---- MODULE Spec2Model ----
(***************************************************************************)
(* ClipSyncer: the in-memory clipboard history store, the orchestrator's   *)
(* clipboard-change and remote-merge paths, the clipboard monitor and the  *)
(* auto-sync scheduler, as state machines.                                 *)
(***************************************************************************)
EXTENDS Integers, Sequences, FiniteSets, TLC

(* ------------------------------ bounds -------------------------------- *)
\* largest max_size a store is constructed or imported with
MaxSize == 2
\* the pending-change counter is counted up to MaxPending (the code tests it for 0 only)
MaxPending == 2

\* non-empty clipboard texts
Contents == {"a", "b", "c"}
\* the empty clipboard text
Empty == ""
\* an earlier and a later instant
Timestamps == {0, 1}

(* --------------------------- ClipboardEntry --------------------------- *)
\* ClipboardEntry.calculate_hash: SHA-256 hex digest of the content
\* (collision-free on the texts of the model)
calculate_hash(content) == "sha256:" \o content

\* a ClipboardEntry object; id is the identity of the Python object
Entry(content, timestamp, id) ==
    [content |-> content, timestamp |-> timestamp,
     content_hash |-> calculate_hash(content), id |-> id]

\* Python's None where an entry is expected
NoEntry == [content |-> "", timestamp |-> 0, content_hash |-> "", id |-> 0]

\* the entry of a JSON document or of a remote payload (no identity yet)
EntryData == [content : Contents, timestamp : Timestamps]

(* --------------------------- list / dict helpers ---------------------- *)
Min(S) == CHOOSE x \in S : \A y \in S : x <= y

Max(S) == CHOOSE x \in S : \A y \in S : x >= y

\* the set of content hashes of the entries of a sequence
Hashes(E) == {E[i].content_hash : i \in DOMAIN E}

\* identity of a newly constructed object: one no live entry has
FreshId(E) == Min((1 .. Len(E) + 1) \ {E[i].id : i \in DOMAIN E})

EmptyIndex == [h \in {} |-> 0]

\* dict[k] = v
Put(I, k, v) == [h \in DOMAIN I \cup {k} |-> IF h = k THEN v ELSE I[h]]

\* del dict[k] (the caller checks k \in DOMAIN I; Python raises KeyError otherwise)
Del(I, k) == [h \in DOMAIN I \ {k} |-> I[h]]

\* list.remove(x): drops the first element equal to x; ClipboardEntry.__eq__
\* compares content_hash
ListRemove(E, h) ==
    LET i == Min({j \in DOMAIN E : E[j].content_hash = h})
    IN  SubSeq(E, 1, i - 1) \o SubSeq(E, i + 1, Len(E))

\* existing.timestamp = timestamp: the object is mutated wherever it is held
SetTimestamp(E, id, ts) ==
    [i \in DOMAIN E |-> IF E[i].id = id THEN [E[i] EXCEPT !.timestamp = ts] ELSE E[i]]

\* the object with identity id, as held in E
Deref(E, id) == E[Min({j \in DOMAIN E : E[j].id = id})]

\* ClipboardHistory._rebuild_hash_index: later entries overwrite earlier ones
RebuildIndex(E) ==
    [h \in Hashes(E) |-> E[Max({j \in DOMAIN E : E[j].content_hash = h})].id]

\* Object identities are arbitrary (addresses): they are kept up to renaming, each
\* object renamed to its rank by first position in the list.
Rank(E, id) ==
    Cardinality({E[j].id : j \in 1 .. Min({k \in DOMAIN E : E[k].id = id})})

RenameEntries(E) == [i \in DOMAIN E |-> [E[i] EXCEPT !.id = Rank(E, E[i].id)]]

RenameIndex(E, I) == [h \in DOMAIN I |-> Rank(E, I[h])]

\* an entry handed to a caller, held by value
ByValue(e) == [e EXCEPT !.id = 0]

\* the entries of E by value
Values(E) == [i \in DOMAIN E |-> ByValue(E[i])]

\* the entries of E by value, those with hash h left out
Others(E, h) == Values(SelectSeq(E, LAMBDA e : e.content_hash # h))

(* --------------------------- ClipboardHistory ------------------------- *)
\* the result of a call: the store after it and what it returned
Result(E, I, added, removed, raised, evicted) ==
    [entries |-> RenameEntries(E), index |-> RenameIndex(E, I), added |-> added,
     removed |-> ByValue(removed), raised |-> raised,
     evicted |-> [i \in DOMAIN evicted |-> ByValue(evicted[i])]]

\* the duplicate branch, were it to move the entry and leave its timestamp as it was
AddDuplicate_StaleTimestamp(E, I, h, ts) ==
    Result(<<Deref(E, I[h])>> \o ListRemove(E, h), I, FALSE, NoEntry, FALSE, <<>>)

\* add_entry, duplicate branch (dedupe enabled and hash in the index)
AddDuplicate(E, I, h, ts) ==
    LET id       == I[h]
        removed1 == ListRemove(E, h)
        stamped  == SetTimestamp(removed1, id, ts)
        existing == [Deref(E, id) EXCEPT !.timestamp = ts]
    IN  Result(<<existing>> \o stamped, I, FALSE, NoEntry, FALSE, <<>>)

\* add_entry, new-entry branch: insert at the front, evict the tail on overflow
AddNew(E, I, M, content, ts) ==
    LET entry == Entry(content, ts, FreshId(E))
        E1    == <<entry>> \o E
        I1    == Put(I, entry.content_hash, entry.id)
    IN  IF Len(E1) > M
        THEN LET removed == E1[Len(E1)]
                 E2      == SubSeq(E1, 1, Len(E1) - 1)
             IN  IF removed.content_hash \in DOMAIN I1
                 THEN Result(E2, Del(I1, removed.content_hash), TRUE, removed,
                             FALSE, <<removed>>)
                 ELSE Result(E2, I1, FALSE, NoEntry, TRUE, <<removed>>)
        ELSE Result(E1, I1, TRUE, NoEntry, FALSE, <<>>)

\* ClipboardHistory.add_entry
AddEntry(E, I, M, D, content, ts) ==
    IF content = Empty
    THEN Result(E, I, FALSE, NoEntry, FALSE, <<>>)
    ELSE IF D /\ calculate_hash(content) \in DOMAIN I
         THEN AddDuplicate(E, I, calculate_hash(content), ts)
         ELSE AddNew(E, I, M, content, ts)

\* import_entry's loop: while len(entries) > max_size: pop(0), del index[hash]
RECURSIVE EvictHead(_, _, _, _)
EvictHead(E, I, M, evicted) ==
    IF Len(E) > M
    THEN LET removed == E[1]
         IN  IF removed.content_hash \in DOMAIN I
             THEN EvictHead(Tail(E), Del(I, removed.content_hash), M,
                            Append(evicted, removed))
             ELSE Result(Tail(E), I, FALSE, NoEntry, TRUE, Append(evicted, removed))
    ELSE Result(E, I, TRUE, NoEntry, FALSE, evicted)

\* ClipboardHistory.import_entry
ImportEntry(E, I, M, data) ==
    IF calculate_hash(data.content) \in DOMAIN I
    THEN Result(E, I, FALSE, NoEntry, FALSE, <<>>)
    ELSE LET entry == Entry(data.content, data.timestamp, FreshId(E))
         IN  EvictHead(Append(E, entry), Put(I, entry.content_hash, entry.id), M, <<>>)

\* remove_duplicates' walk: keep the first occurrence of each hash
KeepFirst(E) ==
    SelectSeq([i \in DOMAIN E |-> [e |-> E[i], i |-> i]],
              LAMBDA p : \A j \in 1 .. p.i - 1 : E[j].content_hash # p.e.content_hash)

Unwrap(P) == [i \in DOMAIN P |-> P[i].e]

\* ClipboardHistory.remove_duplicates
RemoveDuplicates(E, I, D) ==
    IF ~D
    THEN Result(E, I, FALSE, NoEntry, FALSE, <<>>)
    ELSE LET E1 == Unwrap(KeepFirst(E))
         IN  Result(E1, RebuildIndex(E1), Len(E1) < Len(E), NoEntry, FALSE, <<>>)

\* ClipboardHistory.cleanup_old_entries, cutoff = now - days
CleanupOldEntries(E, cutoff) ==
    LET E1 == SelectSeq(E, LAMBDA e : e.timestamp > cutoff)
    IN  Result(E1, RebuildIndex(E1), Len(E1) < Len(E), NoEntry, FALSE, <<>>)

\* ClipboardHistory.from_json's loop over data['entries']
RECURSIVE LoadEntries(_, _, _)
LoadEntries(data, E, I) ==
    IF data = <<>>
    THEN Result(E, I, TRUE, NoEntry, FALSE, <<>>)
    ELSE LET entry == Entry(data[1].content, data[1].timestamp, FreshId(E))
         IN  LoadEntries(Tail(data), Append(E, entry),
                         Put(I, entry.content_hash, entry.id))

\* the 'entries' of the JSON documents from_json is given: none, one or two entries
\* of the earlier instant, in any order, repeated or not
JsonEntry == [content : Contents, timestamp : {0}]

JsonEntries ==
    {<<>>} \cup {<<x>> : x \in JsonEntry} \cup {<<x, y>> : x \in JsonEntry, y \in JsonEntry}

(* ------------------------------- state -------------------------------- *)
VARIABLES
    entries,          \* ClipboardHistory._entries
    hash_index,       \* ClipboardHistory._hash_index: hash -> object identity
    max_size,         \* ClipboardHistory.max_size
    dedupe_enabled,   \* ClipboardHistory.dedupe_enabled
    op,               \* the last call on the store: name and content argument
    ret,              \* what that call returned
    enabled,          \* AutoSyncService.enabled
    push_callback,    \* AutoSyncService._push_callback is set
    pending_changes,  \* AutoSyncService._pending_changes
    debounce_timer,   \* AutoSyncService._debounce_timer: a live timer, or 0
    timers,           \* the threading.Timer objects: state and seconds left
    lock_owner,       \* who holds AutoSyncService._lock: 0, a timer, or Force
    since_push,       \* seconds since _last_push, counted up to MIN_PUSH_INTERVAL
    since_trigger,    \* seconds since the last trigger_push, up to DEBOUNCE_SECONDS
    stop_pc,          \* AutoSyncService.stop(): "idle", or "cancel" once enabled is cleared
    push_log,         \* the push callback invocation under way: by whom, how long after a trigger
    revision,         \* the orchestrator that runs: "main_improved" or "main"
    m_pc,             \* monitor thread: where _on_clipboard_change stands
    m_content,        \* monitor thread: the content of the change being handled
    m_ret,            \* monitor thread: what add_entry returned (added, removed_entry)
    m_top,            \* monitor thread: entries = get_entries(limit=1)
    m_saved,          \* monitor thread: the content_hash handed to save_entry, or ""
    p_pc,             \* sync timer thread: where _pull_from_github stands
    p_todo,           \* sync timer thread: remote entries still to merge
    p_entry,          \* sync timer thread: the remote entry being merged
    p_local_hashes,   \* sync timer thread: main.py's local_hashes snapshot
    rows,             \* ClipboardRepository: content_hash of the persisted rows
    archived,         \* content_hash of the entries handed to ArchiveManager.archive_entries
    evicted,          \* content_hash of the entries that left the store on overflow
    running,          \* ClipboardMonitor._running
    thread,           \* ClipboardMonitor._thread: a polling thread, or 0
    last_hash,        \* ClipboardMonitor._last_hash
    callbacks,        \* ClipboardMonitor._callbacks
    clipboard,        \* the text pyperclip.paste() returns now
    t_pc,             \* polling threads: where _monitor_loop stands
    t_content,        \* polling threads: current_content
    t_calls,          \* polling threads: calls made to each callback in this poll
    signalled,        \* polling threads: stop() cleared _running while the loop was alive
    resumed,          \* polling threads: the loop went on polling after being signalled
    join_pc,          \* ClipboardMonitor.stop(): "idle", or "join" once _running is cleared
    t_seen,           \* polling threads: the _last_hash this poll compared with
    t_copy,           \* polling threads: callbacks = self._callbacks.copy()
    run,              \* the current run of polls reading one content, and its notifications
    awaiting,         \* a trigger_push after which no push callback invocation has begun yet
    pull_callback,    \* AutoSyncService._pull_callback is set
    pull_interval,    \* AutoSyncService.pull_interval, in seconds
    pull_timer,       \* AutoSyncService._pull_timer: a timer, or 0
    ptimers,          \* the threading.Timer objects that run _execute_pull
    cl_callbacks,     \* CleanupService._callbacks: the registered tasks, in order
    cl_running,       \* CleanupService._running
    cl_lock,          \* who holds CleanupService._lock, or "none"
    cl_stop,          \* CleanupService.stop(): "idle", or "waiting" in scheduler.shutdown(wait=True)
    cycles,           \* the threads that run _run_cleanup: position, tasks copied, tasks invoked
    remote_latest,    \* the remote file sync/latest.json: its content, or NoFile
    last_sync_sha,    \* GitHubSyncService._last_sync_sha, or NoSha
    gh_op,            \* the last call on the sync file: which, and how it went
    gh_ret,           \* what that call returned
    remote_backup,    \* the newest file under backups/ of the remote repository, or NoBackup
    peer_entries,     \* a second device on the same repository: the hashes of its history
    sd_present,       \* shutdown(): the components that exist (are not None)
    sd_pc,            \* shutdown(): the step it stands at, past the last one in finally, then done
    sd_attempted,     \* shutdown(): the steps whose call was made
    sd_raised,        \* shutdown(): the step whose call raised, or "none"
    table,            \* the rows of the clipboard_entries table
    sess,             \* repository calls, one per thread: session, staged change, outcome
    stored_key,       \* keyring entry "encryption_key": the base64 text, or NoValue
    stored_hash,      \* keyring entry "sync_password_hash": the base64 text, or NoValue
    k_op,             \* the last call on the key manager: name and password argument
    k_ret,            \* what that call returned
    keyring_token,    \* keyring entry "github_token", or "" when there is none
    github_yaml,      \* the token written in github_settings.yaml, or NoYaml
    settings_yaml,    \* the github.token written in settings.yaml, or NoYaml
    config_token,     \* ConfigManager.config['github']['token'] in memory
    service_token,    \* the token GitHubSyncService was constructed with
    config,           \* the four settings validate() reads
    components,       \* the components initialize() has created
    init_ret,         \* what initialize() returned, "none" before the call
    signals,          \* signals emitted on the bridge and not yet delivered
    direct_calls,     \* the direct method calls made so far: [thread, target]
    viewer_open,      \* self.history_viewer is not None
    workers,          \* worker threads spawned and not yet run
    clock,            \* datetime.now(), in ticks of a third of a day
    local_archives,   \* archive files in the archive directory: name (a tick) and entry
    remote_archives,  \* archive files under archives/ of the repository, likewise
    deleted,          \* what the last cleanup_old_archives() deleted: [place, file]
    app_up,           \* the application process is running
    gh_mode,          \* how initialize() found remote sync: source, primary, connected
    rw_pc,            \* RestoreWorker.run: where the worker thread stands
    rw_log,           \* RestoreWorker.run: how the download and the decryption ended
    rw_todo,          \* RestoreWorker.run: the entries of the backup still to restore
    rw_ret,           \* the finished signal of the worker: success and message, or none yet
    last_entry_count, \* the entry count the viewer saw at its last load
    current_count,    \* the count _check_for_updates read in its running tick
    v_pc,             \* the position of the refresh tick
    v_before,         \* last_entry_count when the running tick began
    info_bar,         \* the notification the last finished tick or clear showed
    cleared,          \* the content hashes the user cleared in the viewer
    pulled            \* whether a pull returned after the last clear

histVars == <<entries, hash_index, max_size, dedupe_enabled, op, ret>>

syncVars == <<enabled, push_callback, pending_changes, debounce_timer, timers,
              lock_owner, since_push, since_trigger, stop_pc, push_log, awaiting>>

pullVars == <<pull_callback, pull_interval, pull_timer, ptimers>>

cleanVars == <<cl_callbacks, cl_running, cl_lock, cl_stop, cycles>>

ghVars == <<remote_latest, last_sync_sha, gh_op, gh_ret>>

devVars == <<remote_backup, peer_entries>>

\* the services the store, the monitor and the auto-sync scheduler do not touch
sdVars == <<sd_present, sd_pc, sd_attempted, sd_raised>>

\* the components of the later sections
repoVars == <<table, sess>>

keyVars == <<stored_key, stored_hash, k_op, k_ret>>

cfgVars == <<keyring_token, github_yaml, settings_yaml, config_token, service_token>>

iniVars == <<config, components, init_ret>>

brVars == <<signals, direct_calls, viewer_open, workers>>

arcVars == <<clock, local_archives, remote_archives, deleted>>

lifeVars == <<app_up, gh_mode>>

rwVars == <<rw_pc, rw_log, rw_todo, rw_ret>>

viewVars == <<last_entry_count, current_count, v_pc, v_before, info_bar, cleared, pulled>>

moreVars == <<sdVars, repoVars, keyVars, cfgVars, iniVars, brVars, arcVars, lifeVars, rwVars, viewVars>>

\* what the actions of each of these components leave alone
restSd == <<repoVars, keyVars, cfgVars, iniVars, brVars, arcVars, lifeVars, rwVars, viewVars>>

restRepo == <<sdVars, keyVars, cfgVars, iniVars, brVars, arcVars, lifeVars, rwVars, viewVars>>

restKeys == <<sdVars, repoVars, cfgVars, iniVars, brVars, arcVars, lifeVars, rwVars, viewVars>>

restCfg == <<sdVars, repoVars, keyVars, iniVars, brVars, arcVars, lifeVars, rwVars, viewVars>>

restIni == <<sdVars, repoVars, cfgVars, brVars, arcVars, lifeVars, rwVars, viewVars>>

restBr == <<sdVars, repoVars, keyVars, cfgVars, iniVars, arcVars, lifeVars, rwVars, viewVars>>

restArc == <<sdVars, repoVars, keyVars, cfgVars, iniVars, brVars, lifeVars, rwVars, viewVars>>

restLife == <<sdVars, repoVars, keyVars, cfgVars, iniVars, brVars, arcVars, rwVars, viewVars>>

restRw == <<sdVars, repoVars, keyVars, cfgVars, iniVars, brVars, arcVars, lifeVars, viewVars>>

restView == <<sdVars, repoVars, keyVars, cfgVars, iniVars, brVars, arcVars, lifeVars, rwVars>>

svcVars == <<cleanVars, ghVars, devVars, moreVars>>

appVars == <<revision, m_pc, m_content, m_ret, m_top, m_saved, p_pc, p_todo, p_entry,
             p_local_hashes, rows, archived, evicted>>

monVars == <<running, thread, last_hash, callbacks, clipboard, t_pc, t_content,
             t_calls, t_seen, t_copy, signalled, resumed, join_pc, run>>

vars == <<histVars, syncVars, appVars, monVars, pullVars, svcVars>>

Call(name, content) == [name |-> name, content |-> content]

Returned(r) == [added |-> r.added, removed |-> r.removed, raised |-> r.raised]

\* ClipboardHistory.__init__
HistoryInit(M, D) ==
    /\ entries = <<>>
    /\ hash_index = EmptyIndex
    /\ max_size = M
    /\ dedupe_enabled = D
    /\ op = Call("init", Empty)
    /\ ret = Returned(Result(<<>>, EmptyIndex, FALSE, NoEntry, FALSE, <<>>))

(* --------------------------- AutoSyncService -------------------------- *)
DEBOUNCE_SECONDS == 5

MIN_PUSH_INTERVAL == 30

\* the threading.Timer objects alive at a time: the one _debounce_timer refers to
\* and one it no longer refers to
TimerIds == {1, 2}

\* lock_owner of a force_push caller
Force == Max(TimerIds) + 1

FreeTimer == [state |-> "free", remaining |-> 0]

\* threading.Timer(interval, self._execute_push), started
NewTimer(interval) == [state |-> "waiting", remaining |-> interval]

\* Timer.cancel(): stops a timer that still waits; one that has fired runs on
Cancel(T, t) ==
    IF t # 0 /\ T[t].state = "waiting" THEN [T EXCEPT ![t] = FreeTimer] ELSE T

FreeSlots(T) == {t \in TimerIds : T[t].state = "free"}

\* _pending_changes += 1
Incremented(n) == IF n < MaxPending THEN n + 1 ELSE MaxPending

\* the seconds until a retry: MIN_PUSH_INTERVAL - time_since_last
RetryDelay(since) == MIN_PUSH_INTERVAL - since

\* no push callback is being invoked
NoPush == [by |-> "none", after |-> 0]

\* AutoSyncService.__init__ (with or without set_push_callback), and start() or not
SyncInit(callback, started) ==
    /\ enabled = started
    /\ push_callback = callback
    /\ pending_changes = 0
    /\ debounce_timer = 0
    /\ timers = [t \in TimerIds |-> FreeTimer]
    /\ lock_owner = 0
    /\ since_push = MIN_PUSH_INTERVAL
    /\ since_trigger = DEBOUNCE_SECONDS
    /\ stop_pc = "idle"
    /\ push_log = NoPush
    /\ awaiting = FALSE

\* the seconds start() waits before the first pull
INITIAL_PULL_DELAY == 5

DEFAULT_PULL_INTERVAL == 60

\* the threading.Timer objects of the pull chain alive at a time: the one whose
\* thread runs _execute_pull and the one it schedules
PullTimerIds == {1, 2}

FreePullSlots(T) == {t \in PullTimerIds : T[t].state = "free"}

\* the pull_interval_seconds the service is constructed with
PullIntervals == {DEFAULT_PULL_INTERVAL \div 2, DEFAULT_PULL_INTERVAL}

\* AutoSyncService.__init__ (with or without set_pull_callback)
PullInit(callback, intervals) ==
    /\ pull_callback = callback
    /\ pull_interval \in intervals
    /\ pull_timer = 0
    /\ ptimers = [t \in PullTimerIds |-> FreeTimer]

\* AutoSyncService.trigger_push, on the service's own variables
TriggerPush ==
    /\ lock_owner = 0
    /\ pending_changes' = Incremented(pending_changes)
    /\ since_trigger' = 0
    /\ awaiting' = TRUE
    /\ IF ~enabled
       THEN UNCHANGED <<debounce_timer, timers>>
       ELSE LET cancelled == Cancel(timers, debounce_timer)
            IN  /\ FreeSlots(cancelled) # {}
                /\ LET t == Min(FreeSlots(cancelled))
                   IN  /\ timers' = [cancelled EXCEPT ![t] = NewTimer(DEBOUNCE_SECONDS)]
                       /\ debounce_timer' = t
    /\ UNCHANGED <<enabled, push_callback, lock_owner, since_push, stop_pc, push_log>>

\* the store takes the outcome r of call c
Apply(c, r) ==
    /\ entries' = r.entries
    /\ hash_index' = r.index
    /\ op' = c
    /\ ret' = Returned(r)

add_entry(content, ts) ==
    /\ Apply(Call("add_entry", content),
             AddEntry(entries, hash_index, max_size, dedupe_enabled, content, ts))
    /\ UNCHANGED <<max_size, dedupe_enabled, syncVars, appVars, monVars, pullVars, svcVars>>

import_entry(data) ==
    /\ Apply(Call("import_entry", data.content),
             ImportEntry(entries, hash_index, max_size, data))
    /\ UNCHANGED <<max_size, dedupe_enabled, syncVars, appVars, monVars, pullVars, svcVars>>

remove_duplicates ==
    /\ Apply(Call("remove_duplicates", Empty),
             RemoveDuplicates(entries, hash_index, dedupe_enabled))
    /\ UNCHANGED <<max_size, dedupe_enabled, syncVars, appVars, monVars, pullVars, svcVars>>

cleanup_old_entries(cutoff) ==
    /\ Apply(Call("cleanup_old_entries", Empty),
             CleanupOldEntries(entries, cutoff))
    /\ UNCHANGED <<max_size, dedupe_enabled, syncVars, appVars, monVars, pullVars, svcVars>>

clear ==
    /\ Apply(Call("clear", Empty),
             Result(<<>>, EmptyIndex, FALSE, NoEntry, FALSE, <<>>))
    /\ UNCHANGED <<max_size, dedupe_enabled, syncVars, appVars, monVars, pullVars, svcVars>>

from_json(M, D, data) ==
    /\ Apply(Call("from_json", Empty), LoadEntries(data, <<>>, EmptyIndex))
    /\ max_size' = M
    /\ dedupe_enabled' = D
    /\ UNCHANGED <<syncVars, appVars, monVars, pullVars, svcVars>>

(* ------ the orchestrator's change handler and remote merge: SpecApp --- *)
NoData == [content |-> Empty, timestamp |-> 0]

\* the texts the second device captures
PeerContents == {"c"}

\* the decrypted remote payloads: remote entries keyed by content hash
Payloads == SUBSET JsonEntry

HashesOf(evictions) == {evictions[i].content_hash : i \in DOMAIN evictions}

\* ClipboardHistoryApp.__init__ and initialize(): ClipboardHistory(max_history)
AppInit(rev) ==
    /\ revision = rev
    /\ m_pc = "idle"
    /\ m_content = Empty
    /\ m_ret = Returned(Result(<<>>, EmptyIndex, FALSE, NoEntry, FALSE, <<>>))
    /\ m_top = <<>>
    /\ m_saved = ""
    /\ p_pc = "idle"
    /\ p_todo = {}
    /\ p_entry = NoData
    /\ p_local_hashes = {}
    /\ rows = {}
    /\ archived = {}
    /\ evicted = {}

\* the handler, were it to drop the entry add_entry removed
AfterAdd_NoArchive(rev, r) ==
    IF r.raised THEN "idle"
    ELSE IF rev = "main" \/ r.added THEN "get"
    ELSE "idle"

\* where _on_clipboard_change goes after add_entry returned r (an exception ends
\* the handler; main.py tests the returned tuple, which is always true)
AfterAdd(rev, r) ==
    IF r.raised THEN "idle"
    ELSE IF rev = "main" THEN "get"
    ELSE IF r.removed # NoEntry THEN "archive"
    ELSE IF r.added THEN "get"
    ELSE "idle"

\* _on_clipboard_change: self.clipboard_history.add_entry(content, timestamp)
on_clipboard_change(content, ts) ==
    /\ m_pc = "idle"
    /\ LET r == AddEntry(entries, hash_index, max_size, dedupe_enabled, content, ts)
       IN  /\ Apply(Call("add_entry", content), r)
           /\ m_ret' = Returned(r)
           /\ evicted' = evicted \cup HashesOf(r.evicted)
           /\ m_pc' = AfterAdd(revision, r)
    /\ m_content' = content
    /\ m_top' = <<>>
    /\ m_saved' = ""
    /\ UNCHANGED <<max_size, dedupe_enabled, revision, p_pc, p_todo, p_entry,
                   p_local_hashes, rows, archived, syncVars, monVars, pullVars, svcVars>>

\* _on_clipboard_change: self.archive_manager.archive_entries([archive_entry])
handler_archive ==
    /\ m_pc = "archive"
    /\ archived' = archived \cup {m_ret.removed.content_hash}
    /\ m_pc' = IF m_ret.added THEN "get" ELSE "idle"
    /\ UNCHANGED <<histVars, revision, m_content, m_ret, m_top, m_saved, p_pc, p_todo,
                   p_entry, p_local_hashes, rows, evicted, syncVars, monVars, pullVars, svcVars>>

\* ClipboardHistory.get_entries(limit=1)
GetEntries(E, limit) == SubSeq(E, 1, IF Len(E) < limit THEN Len(E) ELSE limit)

\* _on_clipboard_change: entries = self.clipboard_history.get_entries(limit=1)
handler_get ==
    /\ m_pc = "get"
    /\ m_top' = Values(GetEntries(entries, 1))
    /\ m_pc' = "save"
    /\ UNCHANGED <<histVars, revision, m_content, m_ret, m_saved, p_pc, p_todo, p_entry,
                   p_local_hashes, rows, archived, evicted, syncVars, monVars, pullVars, svcVars>>

\* _on_clipboard_change: if entries: self.repository.save_entry(entries[0])
handler_save ==
    /\ m_pc = "save"
    /\ IF m_top # <<>>
       THEN /\ rows' = rows \cup {m_top[1].content_hash}
            /\ m_saved' = m_top[1].content_hash
       ELSE UNCHANGED <<rows, m_saved>>
    /\ m_pc' = "trigger"
    /\ UNCHANGED <<histVars, revision, m_content, m_ret, m_top, p_pc, p_todo, p_entry,
                   p_local_hashes, archived, evicted, syncVars, monVars, pullVars, svcVars>>

\* _on_clipboard_change: self.auto_sync.trigger_push(), and the handler returns
handler_trigger ==
    /\ m_pc = "trigger"
    /\ TriggerPush
    /\ m_pc' = "idle"
    /\ UNCHANGED <<histVars, revision, m_content, m_ret, m_top, m_saved, p_pc, p_todo,
                   p_entry, p_local_hashes, rows, archived, evicted, monVars, pullVars, svcVars>>

\* a file under backups/: the content hashes of the history it carries
Backup(H) == [present |-> TRUE, hashes |-> H]

NoBackup == [present |-> FALSE, hashes |-> {}]

\* the remote repository is empty and the second device's history is empty
DevInit ==
    /\ remote_backup = NoBackup
    /\ peer_entries = {}

\* download_backup, were its filename optional and the newest backup its default
DownloadBackup_Newest(args, remote) == [raised |-> FALSE, data |-> remote]

\* GitHubSyncService.download_backup(filename): filename has no default value
DownloadBackup(args, remote) ==
    IF "filename" \in args
    THEN [raised |-> FALSE, data |-> remote]
    ELSE [raised |-> TRUE, data |-> NoBackup]

\* main_improved._pull_from_github: self.github_sync.download_backup() is called
\* without the filename; the TypeError is caught by the handler of line 573 and
\* the pull returns, the merge loop of lines 527-569 not reached
pull_start ==
    /\ revision = "main_improved"
    /\ p_pc = "idle"
    /\ LET r == DownloadBackup({}, remote_backup)
       IN  /\ p_pc' = IF r.raised \/ ~r.data.present THEN "returned" ELSE "merge"
           /\ p_todo' = IF r.raised THEN p_todo ELSE r.data.hashes \ Hashes(entries)
    /\ UNCHANGED <<histVars, revision, m_pc, m_content, m_ret, m_top, m_saved, p_entry,
                   p_local_hashes, rows, archived, evicted, syncVars, monVars, pullVars, svcVars>>

\* main_improved._immediate_sync_to_github: upload_backup(encrypted) writes the
\* history to backups/clipboard_backup_<timestamp>.json, the newest file there
immediate_sync_to_github ==
    /\ revision = "main_improved"
    /\ remote_backup' = Backup(Hashes(entries))
    /\ UNCHANGED <<histVars, syncVars, appVars, monVars, pullVars, cleanVars, ghVars,
                   moreVars, peer_entries>>

\* the second device captures a text (its history stays within max_size)
peer_capture(content) ==
    /\ calculate_hash(content) \notin peer_entries
    /\ Cardinality(peer_entries) < max_size
    /\ peer_entries' = peer_entries \cup {calculate_hash(content)}
    /\ UNCHANGED <<histVars, syncVars, appVars, monVars, pullVars, cleanVars, ghVars,
                   moreVars, remote_backup>>

\* the second device's _immediate_sync_to_github (its _pull_from_github raises as
\* this device's does and changes nothing)
peer_sync ==
    /\ remote_backup' = Backup(peer_entries)
    /\ UNCHANGED <<histVars, syncVars, appVars, monVars, pullVars, cleanVars, ghVars,
                   moreVars, peer_entries>>

\* _pull_from_github: self.repository.save_entry(entry)
pull_save ==
    /\ p_pc = "save"
    /\ rows' = rows \cup {calculate_hash(p_entry.content)}
    /\ p_pc' = "loop"
    /\ UNCHANGED <<histVars, revision, m_pc, m_content, m_ret, m_top, m_saved, p_todo,
                   p_entry, p_local_hashes, archived, evicted, syncVars, monVars, pullVars, svcVars>>

\* _pull_from_github returns: the loop over the remote entries is over, or the
\* download gave nothing
pull_done ==
    /\ p_pc \in {"returned", "loop"}
    /\ p_todo = {}
    /\ p_pc' = "idle"
    /\ p_entry' = NoData
    /\ p_local_hashes' = {}
    /\ UNCHANGED <<histVars, revision, m_pc, m_content, m_ret, m_top, m_saved, p_todo,
                   rows, archived, evicted, syncVars, monVars, pullVars, svcVars>>

\* main._pull_from_github: local_hashes = {e.content_hash for e in get_entries()}
pull_snapshot ==
    /\ revision = "main"
    /\ p_pc = "idle"
    /\ p_local_hashes' = Hashes(entries)
    /\ p_pc' = "download"
    /\ UNCHANGED <<histVars, revision, m_pc, m_content, m_ret, m_top, m_saved, p_todo,
                   p_entry, rows, archived, evicted, syncVars, monVars, pullVars, svcVars>>

\* main._pull_from_github: pull_latest() and decrypt_json()
pull_download(payload) ==
    /\ p_pc = "download"
    /\ p_todo' = payload
    /\ p_pc' = "loop"
    /\ UNCHANGED <<histVars, revision, m_pc, m_content, m_ret, m_top, m_saved, p_entry,
                   p_local_hashes, rows, archived, evicted, syncVars, monVars, pullVars, svcVars>>

\* main._pull_from_github writes the store's fields itself:
\* _entries.append(entry); _hash_index[content_hash] = entry (taken as one step)
DirectAppend(E, I, data) ==
    LET entry == Entry(data.content, data.timestamp, FreshId(E))
    IN  Result(Append(E, entry), Put(I, entry.content_hash, entry.id),
               TRUE, NoEntry, FALSE, <<>>)

\* main._pull_from_github: one remote entry, skipped when local_hashes has its hash
\* (the store is followed until it is one entry over max_size)
pull_direct(e) ==
    /\ p_pc = "loop"
    /\ e \in p_todo
    /\ p_todo' = p_todo \ {e}
    /\ IF calculate_hash(e.content) \in p_local_hashes
       THEN UNCHANGED <<entries, hash_index, p_entry, p_local_hashes, p_pc>>
       ELSE LET r == DirectAppend(entries, hash_index, e)
            IN  /\ Len(entries) <= max_size
                /\ entries' = r.entries
                /\ hash_index' = r.index
                /\ p_entry' = e
                /\ p_local_hashes' = p_local_hashes \cup {calculate_hash(e.content)}
                /\ p_pc' = "save"
    /\ UNCHANGED <<max_size, dedupe_enabled, op, ret, revision, m_pc, m_content, m_ret,
                   m_top, m_saved, rows, archived, evicted, syncVars, monVars, pullVars, svcVars>>

\* the files the history viewer imports: exported from a store, of one entry
ExportedFiles == {<<x>> : x \in JsonEntry}

\* ModernHistoryViewer._import_history on the UI thread:
\* self.clipboard_history.from_json(f.read()), the file carrying the store's settings
import_history(data) ==
    /\ revision = "main_improved"
    /\ from_json(max_size, dedupe_enabled, data)

\* the monitor stamps a change with the current instant, the latest of the model
Now == Max(Timestamps)

\* main_improved.py: the change handler on the monitor thread, the pull on a timer
\* thread and the history viewer on the UI thread
NextApp ==
    \/ \E content \in Contents : on_clipboard_change(content, Now)
    \/ handler_archive
    \/ handler_get
    \/ handler_save
    \/ handler_trigger
    \/ pull_start
    \/ pull_done
    \/ \E data \in ExportedFiles : import_history(data)

\* two devices on one remote repository, each running main_improved.py: this
\* device's change handler, push and pull, and the second device's capture and push
NextDevices ==
    \/ \E content \in Contents : on_clipboard_change(content, Now)
    \/ handler_archive
    \/ handler_get
    \/ handler_save
    \/ handler_trigger
    \/ pull_start
    \/ pull_done
    \/ immediate_sync_to_github
    \/ \E content \in PeerContents : peer_capture(content)
    \/ peer_sync

\* main.py: the change handler on the monitor thread, the merge on a timer thread
NextMain ==
    \/ \E content \in Contents : on_clipboard_change(content, Now)
    \/ handler_get
    \/ handler_save
    \/ handler_trigger
    \/ pull_snapshot
    \/ \E payload \in Payloads : pull_download(payload)
    \/ \E e \in JsonEntry : pull_direct(e)
    \/ pull_save
    \/ pull_done

(* ------------------- the clipboard monitor: SpecMonitor --------------- *)
\* polling threads alive at a time (a thread that has ended leaves its place)
ThreadIds == {1, 2}

\* the functions that can be registered as callbacks
CallbackIds == {"cb1", "cb2"}

\* what pyperclip.paste() can return: a text, or "" when the clipboard holds none
ClipboardTexts == {"a", "b", Empty}

NoCalls == [cb \in CallbackIds |-> 0]

\* no copy of the callbacks taken in this poll
NoCopy == [taken |-> FALSE, callbacks |-> {}]

\* no poll has read the clipboard yet
NoRun == [open |-> FALSE, content |-> Empty, notified |-> 0]

\* ClipboardMonitor.__init__ and add_callback of the orchestrator's handler
MonitorInit ==
    /\ running = FALSE
    /\ thread = 0
    /\ last_hash = ""
    /\ callbacks = {"cb1"}
    /\ clipboard = Empty
    /\ t_pc = [t \in ThreadIds |-> "none"]
    /\ t_content = [t \in ThreadIds |-> Empty]
    /\ t_calls = [t \in ThreadIds |-> NoCalls]
    /\ t_seen = [t \in ThreadIds |-> ""]
    /\ t_copy = [t \in ThreadIds |-> NoCopy]
    /\ signalled = [t \in ThreadIds |-> FALSE]
    /\ resumed = [t \in ThreadIds |-> FALSE]
    /\ join_pc = "idle"
    /\ run = NoRun

notMon == <<histVars, syncVars, appVars, pullVars, svcVars>>

Alive(t) == t_pc[t] # "none"

\* the user or another program puts a text (or something that is no text) on the clipboard
copy_text(text) ==
    /\ clipboard # text
    /\ clipboard' = text
    /\ UNCHANGED <<running, thread, last_hash, callbacks, t_pc, t_content, t_calls,
                   t_seen, t_copy, signalled, resumed, join_pc, run, notMon>>

\* ClipboardMonitor.add_callback
add_callback(cb) ==
    /\ cb \notin callbacks
    /\ callbacks' = callbacks \cup {cb}
    /\ UNCHANGED <<running, thread, last_hash, clipboard, t_pc, t_content, t_calls,
                   t_seen, t_copy, signalled, resumed, join_pc, run, notMon>>

\* ClipboardMonitor.remove_callback
remove_callback(cb) ==
    /\ cb \in callbacks
    /\ callbacks' = callbacks \ {cb}
    /\ UNCHANGED <<running, thread, last_hash, clipboard, t_pc, t_content, t_calls,
                   t_seen, t_copy, signalled, resumed, join_pc, run, notMon>>

\* ClipboardMonitor.start: a new polling thread unless _running is set
start ==
    /\ ~running
    /\ \E t \in ThreadIds : ~Alive(t)
    /\ LET t == Min({u \in ThreadIds : ~Alive(u)})
       IN  /\ running' = TRUE
           /\ thread' = t
           /\ t_pc' = [t_pc EXCEPT ![t] = "test"]
    /\ UNCHANGED <<last_hash, callbacks, clipboard, t_content, t_calls, t_seen,
                   t_copy, signalled, resumed, join_pc, run, notMon>>

\* ClipboardMonitor.stop, under the lock: self._running = False
stop_signal ==
    /\ join_pc = "idle"
    /\ running
    /\ running' = FALSE
    /\ signalled' = [t \in ThreadIds |-> signalled[t] \/ Alive(t)]
    /\ join_pc' = "join"
    /\ UNCHANGED <<thread, last_hash, callbacks, clipboard, t_pc, t_content, t_calls,
                   t_seen, t_copy, resumed, run, notMon>>

\* ClipboardMonitor.stop, outside the lock: self._thread.join(timeout=5.0) returns,
\* the thread over or not, and self._thread = None
stop_join ==
    /\ join_pc = "join"
    /\ thread' = 0
    /\ join_pc' = "idle"
    /\ UNCHANGED <<running, last_hash, callbacks, clipboard, t_pc, t_content, t_calls,
                   t_seen, t_copy, signalled, resumed, run, notMon>>

\* _monitor_loop: while self._running is false, the loop ends
loop_exit(t) ==
    /\ t_pc[t] = "test"
    /\ ~running
    /\ t_pc' = [t_pc EXCEPT ![t] = "none"]
    /\ signalled' = [signalled EXCEPT ![t] = FALSE]
    /\ resumed' = [resumed EXCEPT ![t] = FALSE]
    /\ UNCHANGED <<running, thread, last_hash, callbacks, clipboard, t_content, t_calls,
                   t_seen, t_copy, join_pc, run, notMon>>

\* the run of polls reading one content: a poll reading another content starts a new run
RunAfterRead(r, text) ==
    IF r.open /\ text = r.content THEN r
    ELSE [open |-> TRUE, content |-> text, notified |-> 0]

\* _monitor_loop: while self._running holds, current_content = pyperclip.paste(),
\* which may raise; an empty text, or an exception, ends the poll
loop_paste(t, raises) ==
    /\ t_pc[t] = "test"
    /\ running
    /\ resumed' = [resumed EXCEPT ![t] = signalled[t]]
    /\ IF raises
       THEN /\ t_pc' = [t_pc EXCEPT ![t] = "sleep"]
            /\ UNCHANGED <<t_content, run>>
       ELSE /\ t_content' = [t_content EXCEPT ![t] = clipboard]
            /\ run' = RunAfterRead(run, clipboard)
            /\ t_pc' = [t_pc EXCEPT ![t] = IF clipboard = Empty THEN "sleep" ELSE "compare"]
    /\ UNCHANGED <<running, thread, last_hash, callbacks, clipboard, t_calls,
                   t_seen, t_copy, signalled, join_pc, notMon>>

\* _has_changed, were it to report a change whatever the last-observed hash
HasChanged_Always(content, last) == TRUE

\* _has_changed: content_hash != self._last_hash
HasChanged(content, last) == calculate_hash(content) # last

\* _has_changed: the comparison
loop_compare(t) ==
    /\ t_pc[t] = "compare"
    /\ t_seen' = [t_seen EXCEPT ![t] = last_hash]
    /\ t_pc' = [t_pc EXCEPT ![t] = IF HasChanged(t_content[t], last_hash)
                                    THEN "assign" ELSE "sleep"]
    /\ UNCHANGED <<running, thread, last_hash, callbacks, clipboard, t_content,
                   t_calls, t_copy, signalled, resumed, join_pc, run, notMon>>

\* _has_changed: self._last_content = content; self._last_hash = content_hash
loop_assign(t) ==
    /\ t_pc[t] = "assign"
    /\ last_hash' = calculate_hash(t_content[t])
    /\ t_pc' = [t_pc EXCEPT ![t] = "notify"]
    /\ UNCHANGED <<running, thread, callbacks, clipboard, t_content, t_calls,
                   t_seen, t_copy, signalled, resumed, join_pc, run, notMon>>

\* notifications of a run are counted up to two
Counted(n) == IF n < 2 THEN n + 1 ELSE n

\* _notify_callbacks' loop: for callback in callbacks: try: callback(...) except: log;
\* an exception is caught inside the loop, the next callback is still called
RECURSIVE CallEach(_, _, _)
CallEach(todo, raising, calls) ==
    IF todo = {} THEN calls
    ELSE LET cb == CHOOSE c \in todo : TRUE
         IN  CallEach(todo \ {cb}, raising, [calls EXCEPT ![cb] = @ + 1])

\* _notify_callbacks: callbacks = self._callbacks.copy() under the lock, then the loop
loop_notify(t, raising) ==
    /\ t_pc[t] = "notify"
    /\ t_copy' = [t_copy EXCEPT ![t] = [taken |-> TRUE, callbacks |-> callbacks]]
    /\ t_calls' = [t_calls EXCEPT ![t] = CallEach(callbacks, raising, NoCalls)]
    /\ run' = IF t_content[t] = run.content
              THEN [run EXCEPT !.notified = Counted(@)] ELSE run
    /\ t_pc' = [t_pc EXCEPT ![t] = "sleep"]
    /\ UNCHANGED <<running, thread, last_hash, callbacks, clipboard, t_content,
                   t_seen, signalled, resumed, join_pc, notMon>>

\* _monitor_loop: time.sleep(self.check_interval); the poll's locals are dropped
loop_sleep(t) ==
    /\ t_pc[t] = "sleep"
    /\ t_pc' = [t_pc EXCEPT ![t] = "test"]
    /\ t_content' = [t_content EXCEPT ![t] = Empty]
    /\ t_calls' = [t_calls EXCEPT ![t] = NoCalls]
    /\ t_seen' = [t_seen EXCEPT ![t] = ""]
    /\ t_copy' = [t_copy EXCEPT ![t] = NoCopy]
    /\ UNCHANGED <<running, thread, last_hash, callbacks, clipboard, signalled, resumed,
                   join_pc, run, notMon>>

NextMonitor ==
    \/ \E text \in ClipboardTexts : copy_text(text)
    \/ \E cb \in CallbackIds : add_callback(cb)
    \/ \E cb \in CallbackIds : remove_callback(cb)
    \/ start
    \/ stop_signal
    \/ stop_join
    \/ \E t \in ThreadIds : loop_exit(t)
    \/ \E t \in ThreadIds, raises \in BOOLEAN : loop_paste(t, raises)
    \/ \E t \in ThreadIds : loop_compare(t)
    \/ \E t \in ThreadIds : loop_assign(t)
    \/ \E t \in ThreadIds, raising \in SUBSET CallbackIds : loop_notify(t, raising)
    \/ \E t \in ThreadIds : loop_sleep(t)

(* ---------------- the auto-sync scheduler: SpecAutoSync --------------- *)
notSync == <<histVars, appVars, monVars, svcVars>>

\* the Timer object t is over: a reference to it is as good as None
Forget(t) == IF debounce_timer = t THEN 0 ELSE debounce_timer

Aged(n, limit) == IF n < limit THEN n + 1 ELSE limit

\* one second passes; a timer whose interval has elapsed fires before the next
Tick ==
    /\ \A t \in TimerIds : timers[t].state = "waiting" => timers[t].remaining > 0
    /\ \A t \in PullTimerIds : ptimers[t].state = "waiting" => ptimers[t].remaining > 0
    /\ timers' = [t \in TimerIds |->
                     IF timers[t].state = "waiting"
                     THEN [timers[t] EXCEPT !.remaining = @ - 1]
                     ELSE timers[t]]
    /\ ptimers' = [t \in PullTimerIds |->
                      IF ptimers[t].state = "waiting"
                      THEN [ptimers[t] EXCEPT !.remaining = @ - 1]
                      ELSE ptimers[t]]
    /\ since_push' = Aged(since_push, MIN_PUSH_INTERVAL)
    /\ since_trigger' = Aged(since_trigger, DEBOUNCE_SECONDS)
    /\ UNCHANGED <<enabled, push_callback, pending_changes, debounce_timer, lock_owner,
                   stop_pc, push_log, awaiting, pull_callback, pull_interval, pull_timer,
                   notSync>>

\* threading.Timer.run: the interval is over and the timer was not cancelled;
\* the timer thread calls _execute_push, which waits for the lock
TimerFire(t) ==
    /\ timers[t].state = "waiting"
    /\ timers[t].remaining = 0
    /\ timers' = [timers EXCEPT ![t].state = "fired"]
    /\ UNCHANGED <<enabled, push_callback, pending_changes, debounce_timer, lock_owner,
                   since_push, since_trigger, stop_pc, push_log, awaiting, pullVars, notSync>>

trigger_push ==
    /\ TriggerPush
    /\ UNCHANGED <<pullVars, notSync>>

\* _execute_push, were it to push without looking at the time of the last push
PushDecision_NoInterval(en, cb, pending, since) ==
    IF ~en \/ ~cb THEN "return"
    ELSE IF pending = 0 THEN "skip"
    ELSE "push"

\* _execute_push, were it to drop a push that comes too early after the last one
PushDecision_DropEarly(en, cb, pending, since) ==
    IF ~en \/ ~cb THEN "return"
    ELSE IF pending = 0 THEN "skip"
    ELSE IF since < MIN_PUSH_INTERVAL THEN "skip"
    ELSE "push"

\* what _execute_push decides under the lock
PushDecision(en, cb, pending, since) ==
    IF ~en \/ ~cb THEN "return"
    ELSE IF pending = 0 THEN "skip"
    ELSE IF since < MIN_PUSH_INTERVAL THEN "retry"
    ELSE "push"

\* AutoSyncService._execute_push up to the call of the push callback
execute_push(t) ==
    /\ timers[t].state = "fired"
    /\ lock_owner = 0
    /\ LET d == PushDecision(enabled, push_callback, pending_changes, since_push)
       IN  CASE d = "retry" ->
                  /\ timers' = [timers EXCEPT ![t] = NewTimer(RetryDelay(since_push))]
                  /\ debounce_timer' = t
                  /\ UNCHANGED <<lock_owner, push_log, awaiting>>
             [] d = "push" ->
                  /\ timers' = [timers EXCEPT ![t].state = "running"]
                  /\ lock_owner' = t
                  /\ push_log' = [by |-> "scheduler", after |-> since_trigger]
                  /\ awaiting' = FALSE
                  /\ UNCHANGED debounce_timer
             [] OTHER ->
                  /\ timers' = [timers EXCEPT ![t] = FreeTimer]
                  /\ debounce_timer' = Forget(t)
                  /\ UNCHANGED <<lock_owner, push_log, awaiting>>
    /\ UNCHANGED <<enabled, push_callback, pending_changes, since_push, since_trigger,
                   stop_pc, pullVars, notSync>>

\* the push callback returns (ok) or raises: _last_push and _pending_changes are
\* set on return only; the lock is released
push_done(t, ok) ==
    /\ timers[t].state = "running"
    /\ lock_owner = t
    /\ since_push' = IF ok THEN 0 ELSE since_push
    /\ pending_changes' = IF ok THEN 0 ELSE pending_changes
    /\ timers' = [timers EXCEPT ![t] = FreeTimer]
    /\ debounce_timer' = Forget(t)
    /\ lock_owner' = 0
    /\ push_log' = NoPush
    /\ UNCHANGED <<enabled, push_callback, since_trigger, stop_pc, awaiting, pullVars, notSync>>

\* AutoSyncService.force_push up to the call of the push callback
force_push ==
    /\ lock_owner = 0
    /\ timers' = Cancel(timers, debounce_timer)
    /\ debounce_timer' = 0
    /\ IF push_callback
       THEN /\ lock_owner' = Force
            /\ push_log' = [by |-> "force", after |-> since_trigger]
            /\ awaiting' = FALSE
       ELSE UNCHANGED <<lock_owner, push_log, awaiting>>
    /\ UNCHANGED <<enabled, push_callback, pending_changes, since_push, since_trigger,
                   stop_pc, pullVars, notSync>>

force_done(ok) ==
    /\ lock_owner = Force
    /\ since_push' = IF ok THEN 0 ELSE since_push
    /\ pending_changes' = IF ok THEN 0 ELSE pending_changes
    /\ lock_owner' = 0
    /\ push_log' = NoPush
    /\ UNCHANGED <<enabled, push_callback, debounce_timer, timers, since_trigger,
                   stop_pc, awaiting, pullVars, notSync>>

\* AutoSyncService.start: with a pull callback set, the first pull is scheduled;
\* start() and stop() are called one after the other by the controlling thread
start_sync ==
    /\ ~enabled
    /\ stop_pc = "idle"
    /\ enabled' = TRUE
    /\ IF pull_callback
       THEN /\ FreePullSlots(ptimers) # {}
            /\ LET t == Min(FreePullSlots(ptimers))
               IN  /\ ptimers' = [ptimers EXCEPT ![t] = NewTimer(INITIAL_PULL_DELAY)]
                   /\ pull_timer' = t
       ELSE UNCHANGED <<pull_timer, ptimers>>
    /\ UNCHANGED <<push_callback, pending_changes, debounce_timer, timers, lock_owner,
                   since_push, since_trigger, stop_pc, push_log, awaiting, pull_callback,
                   pull_interval, notSync>>

\* AutoSyncService.stop: self.enabled = False, before the lock is taken
stop_flag ==
    /\ stop_pc = "idle"
    /\ enabled
    /\ enabled' = FALSE
    /\ stop_pc' = "cancel"
    /\ UNCHANGED <<push_callback, pending_changes, debounce_timer, timers, lock_owner,
                   since_push, since_trigger, push_log, awaiting, pullVars, notSync>>

\* AutoSyncService.stop: under the lock, the debounce timer and the pull timer
\* are cancelled
stop_cancel ==
    /\ stop_pc = "cancel"
    /\ lock_owner = 0
    /\ timers' = Cancel(timers, debounce_timer)
    /\ debounce_timer' = 0
    /\ ptimers' = Cancel(ptimers, pull_timer)
    /\ pull_timer' = 0
    /\ stop_pc' = "idle"
    /\ UNCHANGED <<enabled, push_callback, pending_changes, lock_owner, since_push,
                   since_trigger, push_log, awaiting, pull_callback, pull_interval,
                   notSync>>

NextAutoSync ==
    \/ Tick
    \/ \E t \in TimerIds : TimerFire(t)
    \/ trigger_push
    \/ \E t \in TimerIds : execute_push(t)
    \/ \E t \in TimerIds, ok \in BOOLEAN : push_done(t, ok)
    \/ force_push
    \/ \E ok \in BOOLEAN : force_done(ok)
    \/ start_sync
    \/ stop_flag
    \/ stop_cancel

(* -------------------- the periodic pull: SpecPull -------------------- *)
notPull == <<pending_changes, debounce_timer, timers, lock_owner, since_push,
             since_trigger, push_log, awaiting, push_callback, notSync>>

\* the Timer object t is over: a reference to it is as good as None
ForgetPull(t) == IF pull_timer = t THEN 0 ELSE pull_timer

\* threading.Timer.run: the interval is over and the timer was not cancelled;
\* the timer thread calls _execute_pull
PullFire(t) ==
    /\ ptimers[t].state = "waiting"
    /\ ptimers[t].remaining = 0
    /\ ptimers' = [ptimers EXCEPT ![t].state = "fired"]
    /\ UNCHANGED <<enabled, stop_pc, pull_callback, pull_interval, pull_timer, notPull>>

\* _execute_pull: if not self.enabled: return (enabled is read without the lock)
execute_pull(t) ==
    /\ ptimers[t].state = "fired"
    /\ IF ~enabled
       THEN /\ ptimers' = [ptimers EXCEPT ![t] = FreeTimer]
            /\ pull_timer' = ForgetPull(t)
       ELSE /\ ptimers' = [ptimers EXCEPT ![t].state = "entered"]
            /\ UNCHANGED pull_timer
    /\ UNCHANGED <<enabled, stop_pc, pull_callback, pull_interval, notPull>>

\* _execute_pull: the pull callback, if set, is called
pull_call(t) ==
    /\ ptimers[t].state = "entered"
    /\ ptimers' = [ptimers EXCEPT ![t].state =
                      IF pull_callback THEN "calling" ELSE "finally"]
    /\ UNCHANGED <<enabled, stop_pc, pull_callback, pull_interval, pull_timer, notPull>>

\* _execute_pull, were a raising pull callback to end the chain of pulls
AfterPull_EndOnRaise(ok) == IF ok THEN "finally" ELSE "free"

\* where _execute_pull goes when the pull callback returned (ok) or raised: the
\* finally clause either way
AfterPull(ok) == "finally"

\* the pull callback returns or raises
pull_returned(t, ok) ==
    /\ ptimers[t].state = "calling"
    /\ ptimers' = [ptimers EXCEPT ![t] =
                      IF AfterPull(ok) = "free" THEN FreeTimer
                      ELSE [@ EXCEPT !.state = AfterPull(ok)]]
    /\ pull_timer' = IF AfterPull(ok) = "free" THEN ForgetPull(t) ELSE pull_timer
    /\ UNCHANGED <<enabled, stop_pc, pull_callback, pull_interval, notPull>>

\* _schedule_next_pull: if not self.enabled: return
schedule_check(t) ==
    /\ ptimers[t].state = "finally"
    /\ IF ~enabled
       THEN /\ ptimers' = [ptimers EXCEPT ![t] = FreeTimer]
            /\ pull_timer' = ForgetPull(t)
       ELSE /\ ptimers' = [ptimers EXCEPT ![t].state = "scheduling"]
            /\ UNCHANGED pull_timer
    /\ UNCHANGED <<enabled, stop_pc, pull_callback, pull_interval, notPull>>

\* _schedule_next_pull: the timer _pull_timer refers to is cancelled and a new
\* one is started for pull_interval seconds; the thread of timer t ends
schedule_create(t) ==
    /\ ptimers[t].state = "scheduling"
    /\ LET cancelled == Cancel(ptimers, pull_timer)
           ended == [cancelled EXCEPT ![t] = FreeTimer]
           n == Min(FreePullSlots(ended))
       IN  /\ ptimers' = [ended EXCEPT ![n] = NewTimer(pull_interval)]
           /\ pull_timer' = n
    /\ UNCHANGED <<enabled, stop_pc, pull_callback, pull_interval, notPull>>

NextPull ==
    \/ Tick
    \/ start_sync
    \/ stop_flag
    \/ stop_cancel
    \/ \E t \in PullTimerIds : PullFire(t)
    \/ \E t \in PullTimerIds : execute_pull(t)
    \/ \E t \in PullTimerIds : pull_call(t)
    \/ \E t \in PullTimerIds, ok \in BOOLEAN : pull_returned(t, ok)
    \/ \E t \in PullTimerIds : schedule_check(t)
    \/ \E t \in PullTimerIds : schedule_create(t)

\* the service once started, never stopped
NextPullLive ==
    \/ Tick
    \/ start_sync
    \/ \E t \in PullTimerIds : PullFire(t)
    \/ \E t \in PullTimerIds : execute_pull(t)
    \/ \E t \in PullTimerIds : pull_call(t)
    \/ \E t \in PullTimerIds, ok \in BOOLEAN : pull_returned(t, ok)
    \/ \E t \in PullTimerIds : schedule_check(t)
    \/ \E t \in PullTimerIds : schedule_create(t)

\* the push path of a service that was started and is never stopped
NextPushLive ==
    \/ Tick
    \/ \E t \in TimerIds : TimerFire(t)
    \/ trigger_push
    \/ \E t \in TimerIds : execute_push(t)
    \/ \E t \in TimerIds, ok \in BOOLEAN : push_done(t, ok)
    \/ force_push
    \/ \E ok \in BOOLEAN : force_done(ok)

(* ------------------- the cleanup service: SpecCleanup ----------------- *)
\* the most tasks registered
MaxTasks == 3

\* the functions registered as cleanup tasks
TaskIds == {"t1", "t2"}

\* the threads that run _run_cleanup: the caller of start() or run_now(), and the
\* scheduler's job thread
CycleThreads == {"caller", "scheduler"}

NoCycle == [pc |-> "idle", by |-> "none", tasks |-> <<>>, log |-> <<>>, failed |-> FALSE]

\* CleanupService.__init__
CleanInit ==
    /\ cl_callbacks = <<>>
    /\ cl_running = FALSE
    /\ cl_lock = "none"
    /\ cl_stop = "idle"
    /\ cycles = [c \in CycleThreads |-> NoCycle]

notClean == <<histVars, syncVars, appVars, monVars, pullVars, ghVars, devVars, moreVars>>

\* a thread enters _run_cleanup
BeginCycle(by) == [NoCycle EXCEPT !.pc = "copy", !.by = by]

\* CleanupService.add_task
add_task(task) ==
    /\ cl_lock = "none"
    /\ Len(cl_callbacks) < MaxTasks
    /\ cl_callbacks' = Append(cl_callbacks, task)
    /\ UNCHANGED <<cl_running, cl_lock, cl_stop, cycles, notClean>>

\* CleanupService.start on a service that is not running: the job is scheduled,
\* and the first cycle is run by the caller, who keeps the lock
cleanup_start ==
    /\ cl_lock = "none"
    /\ ~cl_running
    /\ cycles["caller"].pc = "idle"
    /\ cl_running' = TRUE
    /\ cl_lock' = "caller"
    /\ cycles' = [cycles EXCEPT !["caller"] = BeginCycle("start")]
    /\ UNCHANGED <<cl_callbacks, cl_stop, notClean>>

\* CleanupService.run_now: _running is read without the lock
run_now ==
    /\ cycles["caller"].pc = "idle"
    /\ cl_running
    /\ cycles' = [cycles EXCEPT !["caller"] = BeginCycle("run_now")]
    /\ UNCHANGED <<cl_callbacks, cl_running, cl_lock, cl_stop, notClean>>

\* the scheduler's interval is over: its thread calls _run_cleanup (a scheduler
\* that is shutting down submits no job)
scheduled_run ==
    /\ cl_running
    /\ cl_stop = "idle"
    /\ cycles["scheduler"].pc = "idle"
    /\ cycles' = [cycles EXCEPT !["scheduler"] = BeginCycle("job")]
    /\ UNCHANGED <<cl_callbacks, cl_running, cl_lock, cl_stop, notClean>>

\* _run_cleanup: with self._lock: tasks = self._callbacks.copy()
cycle_copy(c) ==
    /\ cycles[c].pc = "copy"
    /\ cl_lock \in {"none", c}
    /\ cycles' = [cycles EXCEPT ![c].pc = "tasks", ![c].tasks = cl_callbacks]
    /\ UNCHANGED <<cl_callbacks, cl_running, cl_lock, cl_stop, notClean>>

\* _run_cleanup, were a raising task to end the cycle
AfterTask_StopOnRaise(raises) == IF raises THEN "idle" ELSE "tasks"

\* where _run_cleanup goes after a task returned or raised: on with the loop
AfterTask(raises) == "tasks"

\* the lock once the cycle of thread c is over: start() releases it
Released(c) == IF cl_lock = c THEN "none" ELSE cl_lock

\* _run_cleanup: the next task of the copy is called, and returns or raises
cycle_task(c, raises) ==
    /\ cycles[c].pc = "tasks"
    /\ Len(cycles[c].log) < Len(cycles[c].tasks)
    /\ cycles' = [cycles EXCEPT
                     ![c].log = Append(@, cycles[c].tasks[Len(cycles[c].log) + 1]),
                     ![c].failed = @ \/ raises,
                     ![c].pc = AfterTask(raises)]
    /\ cl_lock' = IF AfterTask(raises) = "idle" THEN Released(c) ELSE cl_lock
    /\ UNCHANGED <<cl_callbacks, cl_running, cl_stop, notClean>>

\* _run_cleanup: the loop is over
cycle_end(c) ==
    /\ cycles[c].pc = "tasks"
    /\ Len(cycles[c].log) = Len(cycles[c].tasks)
    /\ cycles' = [cycles EXCEPT ![c].pc = "idle"]
    /\ cl_lock' = Released(c)
    /\ UNCHANGED <<cl_callbacks, cl_running, cl_stop, notClean>>

\* CleanupService.stop on a running service: under the lock, shutdown(wait=True)
cleanup_stop ==
    /\ cl_lock = "none"
    /\ cl_stop = "idle"
    /\ cl_running
    /\ cl_lock' = "stopper"
    /\ cl_stop' = "waiting"
    /\ UNCHANGED <<cl_callbacks, cl_running, cycles, notClean>>

\* scheduler.shutdown(wait=True) returns once no job is running; _running = False
cleanup_stopped ==
    /\ cl_stop = "waiting"
    /\ cycles["scheduler"].pc = "idle"
    /\ cl_running' = FALSE
    /\ cl_lock' = "none"
    /\ cl_stop' = "idle"
    /\ UNCHANGED <<cl_callbacks, cycles, notClean>>

NextCleanup ==
    \/ \E task \in TaskIds : add_task(task)
    \/ cleanup_start
    \/ run_now
    \/ scheduled_run
    \/ \E c \in CycleThreads : cycle_copy(c)
    \/ \E c \in CycleThreads, raises \in BOOLEAN : cycle_task(c, raises)
    \/ \E c \in CycleThreads : cycle_end(c)
    \/ cleanup_stop
    \/ cleanup_stopped

(* ---------------- the remote sync file: SpecGitHub ------------------- *)
\* the encrypted documents written to sync/latest.json
Datas == {"d1", "d2", "d3"}

NoFile == "none"

NoSha == [blob |-> "none"]

\* the blob SHA the host computes for a file content: equal contents, equal SHAs
Sha(content) == [blob |-> content]

\* None, as returned by pull_latest
Absent == [data |-> "none", ok |-> FALSE]

GhCall(name, failed, changed) == [name |-> name, failed |-> failed, changed |-> changed]

\* GitHubSyncService.__init__ and connect(); the remote file as it is found
GitHubInit ==
    /\ remote_latest \in Datas \cup {NoFile}
    /\ last_sync_sha = NoSha
    /\ gh_op = GhCall("init", FALSE, FALSE)
    /\ gh_ret = Absent

\* a service whose remote file does not exist yet
GitHubInitOne ==
    /\ remote_latest = NoFile
    /\ last_sync_sha = NoSha
    /\ gh_op = GhCall("init", FALSE, FALSE)
    /\ gh_ret = Absent

notGh == <<histVars, syncVars, appVars, monVars, pullVars, cleanVars, devVars, moreVars>>

\* GitHubSyncService.push_latest: the file is updated, or created when
\* get_contents raises; _last_sync_sha is existing_file.sha on update and
\* result['content'].sha on create; a call that fails returns False
PushLatest(remote, last, data, failed) ==
    IF failed THEN [remote |-> remote, last |-> last, ok |-> FALSE]
    ELSE IF remote # NoFile
         THEN [remote |-> data, last |-> Sha(remote), ok |-> TRUE]
         ELSE [remote |-> data, last |-> Sha(data), ok |-> TRUE]

push_latest(data, failed) ==
    LET r == PushLatest(remote_latest, last_sync_sha, data, failed)
    IN  /\ remote_latest' = r.remote
        /\ last_sync_sha' = r.last
        /\ gh_op' = GhCall("push_latest", failed, Sha(r.remote) # Sha(remote_latest))
        /\ gh_ret' = [data |-> "none", ok |-> r.ok]
        /\ UNCHANGED <<notGh>>

\* pull_latest, were it to leave _last_sync_sha as it is
PullLatest_KeepsSha(remote, last, failed) ==
    IF failed \/ remote = NoFile THEN [data |-> "none", last |-> last]
    ELSE IF last # NoSha /\ Sha(remote) = last THEN [data |-> "none", last |-> last]
    ELSE [data |-> remote, last |-> last]

\* GitHubSyncService.pull_latest: None when the request fails, when there is no
\* file (404) and when the file's SHA is the last known one; else the content,
\* and the SHA is recorded
PullLatest(remote, last, failed) ==
    IF failed \/ remote = NoFile THEN [data |-> "none", last |-> last]
    ELSE IF last # NoSha /\ Sha(remote) = last THEN [data |-> "none", last |-> last]
    ELSE [data |-> remote, last |-> Sha(remote)]

pull_latest(failed) ==
    LET r == PullLatest(remote_latest, last_sync_sha, failed)
    IN  /\ last_sync_sha' = r.last
        /\ gh_op' = GhCall("pull_latest", failed, FALSE)
        /\ gh_ret' = [data |-> r.data, ok |-> r.data # "none"]
        /\ UNCHANGED <<remote_latest, notGh>>

\* another device writes the file
remote_write(data) ==
    /\ remote_latest' = data
    /\ gh_op' = GhCall("remote_write", FALSE, data # remote_latest)
    /\ UNCHANGED <<last_sync_sha, gh_ret, notGh>>

NextGitHub ==
    \/ \E data \in Datas, failed \in BOOLEAN : push_latest(data, failed)
    \/ \E failed \in BOOLEAN : pull_latest(failed)
    \/ \E data \in Datas : remote_write(data)

(* ---------------- the shutdown sequence: SpecShutdown ----------------- *)
\* the variables of the sections before this one
coreVars == <<histVars, syncVars, appVars, monVars, pullVars, cleanVars, ghVars, devVars>>

\* ClipboardHistoryApp.shutdown: the steps in the order of the calls
ShutdownSteps ==
    <<"clipboard_monitor", "cleanup_service", "auto_sync", "tray_icon",
      "database_manager", "config_manager", "qt_app">>

\* the steps whose call can raise; ConfigManager.save catches what it raises
RaisingSteps ==
    {"clipboard_monitor", "cleanup_service", "auto_sync", "tray_icon",
     "database_manager", "qt_app"}

Finally == Len(ShutdownSteps) + 1

ShutdownDone == Len(ShutdownSteps) + 2

\* shutdown() is entered with the components in present created
ShutdownInit(present) ==
    /\ sd_present = present
    /\ sd_pc = 1
    /\ sd_attempted = {}
    /\ sd_raised = "none"

\* where shutdown() goes after the call of step pc: on to the next step, or, the
\* call having raised, to the one handler at the end of the try block
AfterStep(pc, raises) == IF raises THEN Finally ELSE pc + 1

\* shutdown(): "if self.<component>: self.<component>.stop()" and the like
shutdown_step(raises) ==
    /\ sd_pc \in DOMAIN ShutdownSteps
    /\ LET step == ShutdownSteps[sd_pc]
       IN  IF step \in sd_present
           THEN /\ raises => step \in RaisingSteps
                /\ sd_attempted' = sd_attempted \cup {step}
                /\ sd_raised' = IF raises THEN step ELSE sd_raised
                /\ sd_pc' = AfterStep(sd_pc, raises)
           ELSE /\ ~raises
                /\ sd_pc' = sd_pc + 1
                /\ UNCHANGED <<sd_attempted, sd_raised>>
    /\ UNCHANGED <<sd_present, coreVars, restSd>>

\* shutdown(): finally: self._shutdown_event.set()
shutdown_finally ==
    /\ sd_pc = Finally
    /\ sd_pc' = ShutdownDone
    /\ UNCHANGED <<sd_present, sd_attempted, sd_raised, coreVars, restSd>>

NextShutdown ==
    \/ \E raises \in BOOLEAN : shutdown_step(raises)
    \/ shutdown_finally

(* ------------------ the repository: SpecRepository -------------------- *)
\* the threads that call the repository: the monitor thread and a timer thread
RepoThreads == {1, 2}

\* ClipboardEntryDB.id of the rows alive at a time
RowIds == {1, 2}

\* content_hash of the entries saved
RepoHashes == {calculate_hash("a"), calculate_hash("b")}

\* EncryptionManager.encrypt draws a fresh nonce: the ciphertext, nonce and tag of
\* the call made by thread t
Encrypted(t) == [nonce |-> t]

\* a row of clipboard_entries (category and entry_metadata are written with the
\* ciphertext and never again)
Row(id, hash, encrypted, ts) ==
    [id |-> id, content_hash |-> hash, encrypted |-> encrypted, timestamp |-> ts,
     is_favorite |-> FALSE]

NoChange == [kind |-> "none", id |-> 0, hash |-> "", encrypted |-> Encrypted(0), ts |-> 0]

NoCall ==
    [pc |-> "idle", op |-> "none", change |-> NoChange, ret |-> "none",
     failed |-> FALSE, rolled_back |-> FALSE, closed |-> TRUE, raised |-> FALSE]

\* an empty database, no call under way
RepoInit ==
    /\ table = {}
    /\ sess = [t \in RepoThreads |-> NoCall]

\* what save_entry, delete_entry and clear_all return when they fail
FailureValue(name) == "False"

\* delete_entry returns False when no row has the hash
SuccessValue(name, change) ==
    IF name = "delete_entry" /\ change.kind = "none" THEN "False" ELSE "True"

\* session.query(ClipboardEntryDB).filter_by(content_hash=hash).first()
First(T, hash) ==
    IF \E r \in T : r.content_hash = hash
    THEN (CHOOSE r \in T : r.content_hash = hash /\
                           \A q \in T : q.content_hash = hash => r.id <= q.id).id
    ELSE 0

\* the change an operation stages in its session
Staged(T, t, name, hash, ts) ==
    LET id == First(T, hash)
        kind == IF name = "save_entry" THEN (IF id # 0 THEN "timestamp" ELSE "insert")
                ELSE IF id # 0 THEN "delete" ELSE "none"
    IN  [kind |-> kind, id |-> id, hash |-> hash, encrypted |-> Encrypted(t), ts |-> ts]

\* the table without its unique index
UniqueViolation_None(T, hash) == FALSE

\* ClipboardEntryDB.content_hash is unique=True: an INSERT of a hash that has a row fails
UniqueViolation(T, hash) == \E r \in T : r.content_hash = hash

\* the flush of a staged change fails: a unique violation, or an UPDATE or DELETE
\* of a row that is gone
FlushFails(T, c) ==
    \/ c.kind = "insert" /\ (UniqueViolation(T, c.hash) \/ RowIds \ {r.id : r \in T} = {})
    \/ c.kind \in {"timestamp", "delete"} /\ ~\E r \in T : r.id = c.id

\* the table once the staged change is committed
Committed(T, c) ==
    IF c.kind = "insert"
        THEN T \cup {Row(Min(RowIds \ {r.id : r \in T}), c.hash, c.encrypted, c.ts)}
    ELSE IF c.kind = "timestamp"
        THEN {IF r.id = c.id THEN [r EXCEPT !.timestamp = c.ts] ELSE r : r \in T}
    ELSE IF c.kind = "delete" THEN {r \in T : r.id # c.id}
    ELSE IF c.kind = "delete_all" THEN {}
    ELSE T

\* get_session, were its handler to leave the rollback out
SessionExit_NoRollback(failed) ==
    [rolled_back |-> FALSE, closed |-> TRUE, raised |-> failed]

\* get_session: commit after the block, rollback and re-raise on an exception,
\* close in either case
SessionExit(failed) ==
    [rolled_back |-> failed, closed |-> TRUE, raised |-> failed]

\* the call of thread t is over: what get_session did and what the operation
\* returns, its handler turning an exception into the failure value
Ended(t, name, change, failed) ==
    LET x == SessionExit(failed)
    IN  [pc |-> "idle", op |-> name,
         change |-> [NoChange EXCEPT !.kind = change.kind, !.hash = change.hash],
         ret |-> IF x.raised THEN FailureValue(name) ELSE SuccessValue(name, change),
         failed |-> failed, rolled_back |-> x.rolled_back, closed |-> x.closed,
         raised |-> FALSE]

\* save_entry and delete_entry (toggle_favorite, cleanup_old_entries and the
\* settings calls have the shape of delete_entry) up to the end of the with block: the session is opened, the content encrypted, the row queried
\* and the change staged; an exception in the block ends the call
repo_call(t, name, hash, ts, raises) ==
    /\ sess[t].pc = "idle"
    /\ IF raises
       THEN sess' = [sess EXCEPT ![t] = Ended(t, name, NoChange, TRUE)]
       ELSE sess' = [sess EXCEPT ![t] =
                        [NoCall EXCEPT !.pc = "staged", !.op = name, !.closed = FALSE,
                                       !.change = Staged(table, t, name, hash, ts)]]
    /\ UNCHANGED <<table, coreVars, restRepo>>

\* the with block is left: session.commit(), which fails on a constraint or of
\* its own (fails)
repo_commit(t, fails) ==
    /\ sess[t].pc = "staged"
    /\ LET c == sess[t].change
           failed == fails \/ FlushFails(table, c)
       IN  /\ table' = IF failed THEN table ELSE Committed(table, c)
           /\ sess' = [sess EXCEPT ![t] = Ended(t, sess[t].op, c, failed)]
    /\ UNCHANGED <<coreVars, restRepo>>

\* clear_all: the bulk delete and its own session.commit() inside the block; the
\* commit after the block has nothing left to write
clear_all(t, fails) ==
    /\ sess[t].pc = "idle"
    /\ table' = IF fails THEN table ELSE {}
    /\ sess' = [sess EXCEPT ![t] =
                   Ended(t, "clear_all", [NoChange EXCEPT !.kind = "delete_all"], fails)]
    /\ UNCHANGED <<coreVars, restRepo>>

RepoOps == {"save_entry", "delete_entry"}

NextRepository ==
    \/ \E t \in RepoThreads, name \in RepoOps, hash \in RepoHashes, ts \in Timestamps,
          raises \in BOOLEAN : repo_call(t, name, hash, ts, raises)
    \/ \E t \in RepoThreads, fails \in BOOLEAN : repo_commit(t, fails)
    \/ \E t \in RepoThreads, fails \in BOOLEAN : clear_all(t, fails)

(* -------------------- the key manager: SpecKeys ----------------------- *)
\* the sync passwords the user types
Passwords == {"p1", "p2", "p3"}

\* what os.urandom(32) can give
RandomKeys == {"r1", "r2"}

\* an absent keyring entry, and the absent return value
NoValue == [kind |-> "none", of |-> ""]

\* derive_key_from_password: PBKDF2-HMAC-SHA256 of the password with SYNC_SALT
derive_key_from_password(password) == [kind |-> "derived", of |-> password]

\* generate_key's result for one outcome of os.urandom
RandomKey(r) == [kind |-> "random", of |-> r]

\* the verification hash: pbkdf2_hmac of the password with the verification salt
PasswordHash(password) == [kind |-> "verify", of |-> password]

\* base64.b64encode(...).decode('ascii') and base64.b64decode
B64(bytes) == [b64 |-> bytes]

UnB64(text) == text.b64

\* an empty credential store
KeyInit ==
    /\ stored_key = NoValue
    /\ stored_hash = NoValue
    /\ k_op = [name |-> "init", password |-> ""]
    /\ k_ret = NoValue

KeyCall(name, password) == [name |-> name, password |-> password]

\* KeyManager.get_key: the stored text decoded, or absent
GetKey(key) == IF key = NoValue THEN NoValue ELSE UnB64(key)

\* KeyManager.has_sync_password
HasSyncPassword(hash) == hash # NoValue

\* verify_sync_password, were it to accept any password once one is set
VerifySyncPassword_Any(hash, password) == hash # NoValue

\* KeyManager.verify_sync_password: compare_digest of the two hashes
VerifySyncPassword(hash, password) ==
    hash # NoValue /\ UnB64(hash) = PasswordHash(password)

\* KeyManager.set_sync_password: the derived key and the verification hash are stored
SetSyncPassword(password) ==
    [key |-> B64(derive_key_from_password(password)),
     hash |-> B64(PasswordHash(password)),
     ret |-> derive_key_from_password(password)]

\* KeyManager.get_key_with_password
GetKeyWithPassword(key, hash, password) ==
    IF HasSyncPassword(hash)
    THEN IF VerifySyncPassword(hash, password)
         THEN IF GetKey(key) # NoValue
              THEN [key |-> key, hash |-> hash, ret |-> GetKey(key)]
              ELSE SetSyncPassword(password)
         ELSE [key |-> key, hash |-> hash, ret |-> NoValue]
    ELSE SetSyncPassword(password)

KeyApply(c, r) ==
    /\ stored_key' = r.key
    /\ stored_hash' = r.hash
    /\ k_op' = c
    /\ k_ret' = r.ret
    /\ UNCHANGED <<coreVars, restKeys>>

get_key_with_password(password) ==
    KeyApply(KeyCall("get_key_with_password", password),
             GetKeyWithPassword(stored_key, stored_hash, password))

set_sync_password(password) ==
    KeyApply(KeyCall("set_sync_password", password), SetSyncPassword(password))

\* the two keyring writes of set_sync_password
KeyringWrites == {"key", "hash"}

\* set_sync_password when one keyring write fails: store_key logs the failure
\* and returns False, and the hash is written all the same; a failing write of
\* the hash raises after the key was stored
SetSyncPasswordFailing(key, hash, password, write) ==
    IF write = "key"
    THEN [key |-> key, hash |-> B64(PasswordHash(password)),
          ret |-> derive_key_from_password(password)]
    ELSE [key |-> B64(derive_key_from_password(password)), hash |-> hash,
          ret |-> NoValue]

set_sync_password_failing(password, write) ==
    KeyApply(KeyCall("set_sync_password", password),
             SetSyncPasswordFailing(stored_key, stored_hash, password, write))

\* KeyManager.store_key(key), the caller handing over a key of its own
store_key(r) ==
    KeyApply(KeyCall("store_key", ""),
             [key |-> B64(RandomKey(r)), hash |-> stored_hash, ret |-> NoValue])

\* KeyManager.get_or_create_key: the stored key, or a new random key that is stored
get_or_create_key(r) ==
    KeyApply(KeyCall("get_or_create_key", ""),
             IF GetKey(stored_key) # NoValue
             THEN [key |-> stored_key, hash |-> stored_hash, ret |-> GetKey(stored_key)]
             ELSE [key |-> B64(RandomKey(r)), hash |-> stored_hash, ret |-> RandomKey(r)])

\* KeyManager.rotate_key
rotate_key(r) ==
    KeyApply(KeyCall("rotate_key", ""),
             [key |-> B64(RandomKey(r)), hash |-> stored_hash, ret |-> RandomKey(r)])

\* KeyManager.delete_key
delete_key ==
    KeyApply(KeyCall("delete_key", ""),
             [key |-> NoValue, hash |-> stored_hash, ret |-> NoValue])

\* KeyManager.clear_sync_password
clear_sync_password ==
    KeyApply(KeyCall("clear_sync_password", ""),
             [key |-> stored_key, hash |-> NoValue, ret |-> NoValue])

NextKeys ==
    \/ \E password \in Passwords : get_key_with_password(password)
    \/ \E password \in Passwords : set_sync_password(password)
    \/ \E r \in RandomKeys : get_or_create_key(r)
    \/ \E r \in RandomKeys : rotate_key(r)
    \/ delete_key
    \/ clear_sync_password
    \/ \E r \in RandomKeys : store_key(r)
    \/ \E password \in Passwords, write \in KeyringWrites :
           set_sync_password_failing(password, write)

(* ---------- the settings files and the stored token: SpecKeys --------- *)
\* the access tokens the user saves
Tokens == {"T1", "T2"}

\* a settings file that does not exist
NoYaml == "absent"

\* a first start: no settings file, no stored token, the default configuration
ConfigInit ==
    /\ keyring_token = ""
    /\ github_yaml = NoYaml
    /\ settings_yaml = NoYaml
    /\ config_token = ""
    /\ service_token = ""

\* ConfigManager._load_config: the user's settings.yaml merged over the defaults
LoadConfig(settings) == IF settings = NoYaml THEN "" ELSE settings

\* ConfigManager._load_github_settings: the token of the keyring overrides the
\* file's; a token only in the file is copied to the keyring; the github section
\* is merged into the configuration
LoadGithubSettings(merged, yaml, keyring) ==
    IF yaml = NoYaml THEN [config |-> merged, keyring |-> keyring]
    ELSE IF keyring # "" THEN [config |-> keyring, keyring |-> keyring]
    ELSE IF yaml # "" THEN [config |-> yaml, keyring |-> yaml]
    ELSE [config |-> yaml, keyring |-> keyring]

\* ConfigManager.load at startup
config_load ==
    /\ LET r == LoadGithubSettings(LoadConfig(settings_yaml), github_yaml, keyring_token)
       IN  /\ config_token' = r.config
           /\ keyring_token' = r.keyring
    /\ UNCHANGED <<github_yaml, settings_yaml, service_token, coreVars, restCfg>>

\* GitHubSettingsDialog._save_settings: yaml.safe_dump(settings) with the token
dialog_save(token) ==
    /\ github_yaml' = token
    /\ UNCHANGED <<keyring_token, settings_yaml, config_token, service_token, coreVars, restCfg>>

\* ConfigManager.save, as shutdown() calls it: yaml.dump(self.config)
config_save ==
    /\ settings_yaml' = config_token
    /\ UNCHANGED <<keyring_token, github_yaml, config_token, service_token, coreVars, restCfg>>

\* ClipboardHistoryApp._load_github_settings: the token of github_settings.yaml,
\* replaced by the keyring's when the keyring holds one
AppLoadGithubSettings(yaml, keyring) ==
    IF yaml = NoYaml THEN "" ELSE IF keyring # "" THEN keyring ELSE yaml

\* the token initialize() hands to GitHubSyncService: that of the dedicated
\* settings, else that of the github section of the configuration
ServiceToken(yaml, keyring, merged) ==
    IF AppLoadGithubSettings(yaml, keyring) # ""
    THEN AppLoadGithubSettings(yaml, keyring)
    ELSE merged

\* a start of the application: initialize() constructs the ConfigManager, which
\* loads and migrates, then loads the remote settings and builds the service
app_start ==
    /\ LET r == LoadGithubSettings(LoadConfig(settings_yaml), github_yaml, keyring_token)
       IN  /\ config_token' = r.config
           /\ keyring_token' = r.keyring
           /\ service_token' = ServiceToken(github_yaml, r.keyring, r.config)
    /\ UNCHANGED <<github_yaml, settings_yaml, coreVars, restCfg>>

NextConfig ==
    \/ config_load
    \/ app_start
    \/ \E token \in Tokens : dialog_save(token)
    \/ config_save

(* ------------------- initialize(): SpecInitialize --------------------- *)
\* a configuration value: a number, something that is no number, or None
\* (a key that is absent reads as None as well)
IntValue(n) == [kind |-> "int", v |-> n]

NoneValue == [kind |-> "none", v |-> 0]

StrValue == [kind |-> "str", v |-> 0]

BoolValue(b) == [kind |-> "bool", v |-> IF b THEN 1 ELSE 0]

\* ConfigManager._create_default_config
DefaultConfig ==
    [check_interval |-> IntValue(500), max_history_size |-> IntValue(1000),
     enabled |-> BoolValue(TRUE), retention_days |-> IntValue(30)]

\* the configurations a settings.yaml merged over the defaults can produce
CheckIntervals == {NoneValue, StrValue, IntValue(50), IntValue(99), IntValue(100), IntValue(500)}

HistorySizes == {NoneValue, IntValue(5), IntValue(9), IntValue(10), IntValue(1000)}

Enableds == {NoneValue, BoolValue(TRUE), BoolValue(FALSE)}

RetentionDays == {NoneValue, IntValue(0), IntValue(30)}

Configs ==
    [check_interval : CheckIntervals, max_history_size : HistorySizes,
     enabled : Enableds, retention_days : RetentionDays]

\* the components in the order in which initialize() creates them; the two
\* GitHub ones only when GitHub sync is configured
Components ==
    <<"encryption_manager", "database_manager", "repository", "clipboard_monitor",
      "clipboard_history", "github_sync", "auto_sync", "archive_manager",
      "cleanup_service">>

GithubComponents == {"github_sync", "auto_sync"}

\* ClipboardHistoryApp.__init__: every component is None
InitializeInit(c) ==
    /\ config = c
    /\ components = {}
    /\ init_ret = "none"

\* value < limit in validate(): a value that is no number raises TypeError
Below(value, limit) ==
    IF value.kind \in {"int", "bool"} THEN IF value.v < limit THEN "yes" ELSE "no"
    ELSE "raises"

\* validate(), were it to check only that the four keys are present
Validate_PresenceOnly(c) ==
    /\ c.check_interval # NoneValue
    /\ c.max_history_size # NoneValue
    /\ c.enabled # NoneValue
    /\ c.retention_days # NoneValue

\* ConfigManager.validate
Validate(c) ==
    /\ c.check_interval # NoneValue
    /\ c.max_history_size # NoneValue
    /\ c.enabled # NoneValue
    /\ c.retention_days # NoneValue
    /\ Below(c.check_interval, 100) = "no"
    /\ Below(c.max_history_size, 10) = "no"

\* the components created when the constructor at position stop + 1 raises
\* (stop = Len(Components): none raises)
Created(github, stop) ==
    {Components[i] : i \in 1..stop} \ (IF github THEN {} ELSE GithubComponents)

\* ClipboardHistoryApp.initialize
initialize(github, stop, r) ==
    /\ init_ret = "none"
    /\ IF ~Validate(config)
       THEN /\ init_ret' = "False"
            /\ UNCHANGED <<components, keyVars>>
       ELSE /\ components' = Created(github, stop)
            /\ init_ret' = IF stop = Len(Components) THEN "True" ELSE "False"
            /\ stored_key' = IF GetKey(stored_key) # NoValue THEN stored_key
                             ELSE B64(RandomKey(r))
            /\ UNCHANGED <<stored_hash, k_op, k_ret>>
    /\ UNCHANGED <<config, coreVars, restIni>>

NextInitialize ==
    \E github \in BOOLEAN, stop \in 0..Len(Components), r \in RandomKeys :
        initialize(github, stop, r)

(* ------------------- the signal bridge: SpecBridge -------------------- *)
\* at most this many emitted signals wait for the UI thread
MaxSignals == 2

\* the items of the tray menu, each wired to the signal of the same name
TrayItems == {"show_history", "toggle_monitoring", "sync_github", "cleanup", "quit"}

\* a direct method call on target, made by thread th
DirectCall(th, target) == [thread |-> th, target |-> target]

\* start(): the bridge is created, nothing is emitted, no viewer exists
BridgeInit ==
    /\ signals = <<>>
    /\ direct_calls = {}
    /\ viewer_open = FALSE
    /\ workers = {}

\* signal.emit() from any thread: a queued delivery to the UI thread
Emit(queue, signal) == Append(queue, signal)

\* a tray menu callback: lambda: self.signal_bridge.<item>_signal.emit()
tray_click(item) ==
    /\ Len(signals) < MaxSignals
    /\ signals' = Emit(signals, item)
    /\ UNCHANGED <<direct_calls, viewer_open, workers, coreVars, restBr>>

\* the method calls the slot of a signal makes, on the UI thread
SlotCalls(signal) ==
    CASE signal = "show_history" -> {DirectCall("ui", "history_viewer")}
      [] signal = "toggle_monitoring" -> {DirectCall("ui", "clipboard_monitor"), DirectCall("ui", "tray_icon")}
      [] signal = "show_notification" -> {DirectCall("ui", "tray_icon")}
      [] signal = "quit" -> {DirectCall("ui", "clipboard_monitor"), DirectCall("ui", "tray_icon")}
      [] OTHER -> {}

\* the worker thread the slot of a signal starts
SlotWorkers(signal) ==
    CASE signal = "sync_github" -> {"sync_task"}
      [] signal = "cleanup" -> {"cleanup_task"}
      [] OTHER -> {}

\* the Qt event loop delivers the oldest signal to its slot
deliver ==
    /\ signals # <<>>
    /\ signals' = Tail(signals)
    /\ direct_calls' = direct_calls \cup SlotCalls(Head(signals))
    /\ viewer_open' = (viewer_open \/ Head(signals) = "show_history")
    /\ workers' = workers \cup SlotWorkers(Head(signals))
    /\ UNCHANGED <<coreVars, restBr>>

\* sync_task and cleanup_task, each on the thread _sync_to_github or
\* _cleanup_now started; notify: the task reaches its emit
worker_run(w, notify) ==
    /\ w \in workers
    /\ notify => Len(signals) < MaxSignals
    /\ workers' = workers \ {w}
    /\ direct_calls' = direct_calls \cup (IF w = "cleanup_task" THEN {DirectCall("worker", "cleanup_service")} ELSE {})
    /\ signals' = IF notify THEN Emit(signals, "show_notification") ELSE signals
    /\ UNCHANGED <<viewer_open, coreVars, restBr>>

\* _on_clipboard_change on the monitor thread: the entry is added to the history
\* and saved; notify: ui.show_notifications is set and the entry was added
monitor_change(notify) ==
    /\ notify => Len(signals) < MaxSignals
    /\ direct_calls' = direct_calls \cup {DirectCall("monitor", "clipboard_history"), DirectCall("monitor", "repository")}
    /\ signals' = IF notify THEN Emit(signals, "show_notification") ELSE signals
    /\ UNCHANGED <<viewer_open, workers, coreVars, restBr>>

\* the calls of _pull_from_github after a download with result r: the merge into
\* the history and, with a viewer open, self.history_viewer.load_history()
PullCalls(r, open) ==
    IF r.raised \/ ~r.data.present THEN {}
    ELSE {DirectCall("timer", "clipboard_history")}
             \cup (IF open THEN {DirectCall("timer", "history_viewer")} ELSE {})

\* _pull_from_github on the pull timer thread
pull_on_timer ==
    /\ direct_calls' = direct_calls \cup PullCalls(DownloadBackup({}, remote_backup), viewer_open)
    /\ UNCHANGED <<signals, viewer_open, workers, coreVars, restBr>>

NextBridge ==
    \/ \E item \in TrayItems : tray_click(item)
    \/ deliver
    \/ \E w \in {"sync_task", "cleanup_task"}, notify \in BOOLEAN : worker_run(w, notify)
    \/ \E notify \in BOOLEAN : monitor_change(notify)
    \/ pull_on_timer
    \/ immediate_sync_to_github

(* ------------------- the archive manager: SpecArchive ----------------- *)
ARCHIVE_RETENTION_DAYS == 7

\* the clock counts ticks of eight hours
TicksPerDay == 3

\* the clock stops here, past the day on which the first archives expire
MaxClock == 26

\* at most this many local archive files at a time
MaxArchives == 2

\* the entries evicted from the history and handed to archive_entries
ArchivedEntries == {"a1", "a2"}

\* archive_<name>.json holding one entry; the name is the time of the call cut to
\* the unit the name carries (a second in the program, a tick here), and the
\* modification time is the same
ArchiveFile(name, entry) == [file |-> name, entry |-> entry]

\* open(local_path, 'w'): a file of that name is replaced
WriteFile(files, name, entry) ==
    {f \in files : f.file # name} \cup {ArchiveFile(name, entry)}

\* get_archived_entries(days=7): the entries of the local files modified at or
\* after the cutoff
GetArchivedEntries(files, at) ==
    {f.entry : f \in {g \in files : g.file >= at - 7 * TicksPerDay}}

\* ArchiveManager.__init__ on an empty archive directory and an empty archives/
ArchiveInit ==
    /\ clock = 0
    /\ local_archives = {}
    /\ remote_archives = {}
    /\ deleted = {}

\* time passes
tick ==
    /\ clock < MaxClock
    /\ clock' = clock + 1
    /\ UNCHANGED <<local_archives, remote_archives, deleted, coreVars, restArc>>

\* archive_entries: archive_<now>.json is written to the archive directory, with
\* the current time as its modification time, and, when the sync service is
\* enabled and the upload succeeds, to archives/ of the repository
archive_entries(entry, github, uploaded) ==
    /\ Cardinality(local_archives) < MaxArchives
    /\ local_archives' = WriteFile(local_archives, clock, entry)
    /\ remote_archives' = IF github /\ uploaded THEN remote_archives \cup {clock}
                          ELSE remote_archives
    /\ UNCHANGED <<clock, deleted, coreVars, restArc>>

\* cutoff_date = datetime.now() - timedelta(days=ARCHIVE_RETENTION_DAYS)
CutoffDate(at) == at - ARCHIVE_RETENTION_DAYS * TicksPerDay

\* datetime.strptime(file.name[8:16], '%Y%m%d'): midnight of the day in the name
FileDate(file) == (file \div TicksPerDay) * TicksPerDay

\* the remote files _cleanup_github_archives deletes
ExpiredRemote(files, cutoff) == {f \in files : FileDate(f) < cutoff}

\* the local files cleanup_old_archives deletes, by their modification time
ExpiredLocal(files, cutoff) == {f \in files : f.file < cutoff}

\* ArchiveManager.cleanup_old_archives
cleanup_old_archives(github) ==
    LET local == ExpiredLocal(local_archives, CutoffDate(clock))
        remote == IF github THEN ExpiredRemote(remote_archives, CutoffDate(clock)) ELSE {}
    IN  /\ local_archives' = local_archives \ local
        /\ remote_archives' = remote_archives \ remote
        /\ deleted' = {[place |-> "local", file |-> f.file, at |-> clock] : f \in local}
                          \cup {[place |-> "remote", file |-> f, at |-> clock] : f \in remote}
        /\ UNCHANGED <<clock, coreVars, restArc>>

NextArchive ==
    \/ tick
    \/ \E entry \in ArchivedEntries, github, uploaded \in BOOLEAN :
           archive_entries(entry, github, uploaded)
    \/ \E github \in BOOLEAN : cleanup_old_archives(github)

(* ---------------- quit and restart: SpecLifecycle -------------------- *)
\* where initialize() finds remote sync enabled with a token and a repository:
\* github_settings.yaml, the github section of settings.yaml, or nowhere
SettingsSources == {"file", "config", "none"}

\* the remote sync settings of a run: their source, is_primary_storage, and
\* whether GitHubSyncService.connect() succeeded (github_sync.enabled)
GithubMode(source, primary, connected) ==
    [source |-> source, primary |-> primary, connected |-> connected]

\* the texts the user copies over the runs
CopiedTexts == {"a", "b"}

\* the application runs, set up by the settings dialog and connected
LifeInit ==
    /\ app_up = TRUE
    /\ gh_mode = GithubMode("file", TRUE, TRUE)

\* initialize() calls _initial_github_sync() in the github_settings.yaml branch
\* only, whatever is_primary_storage says
RunsInitialSync(mode) == mode.source = "file"

\* _initial_github_sync: nothing without a connected service; else
\* repository.clear_all() and clipboard_history.clear(), and download_backup()
\* raises for its missing argument, so nothing is loaded
InitialGithubSync(mode, stored) ==
    IF RunsInitialSync(mode) /\ mode.connected
    THEN IF DownloadBackup({}, remote_backup).raised THEN {}
         ELSE DownloadBackup({}, remote_backup).data.hashes
    ELSE stored

\* shutdown(): the monitor is stopped and joined, AutoSyncService.stop() clears
\* enabled and cancels the debounce timer, the database is closed
quit ==
    /\ app_up
    /\ m_pc = "idle"
    /\ app_up' = FALSE
    /\ enabled' = FALSE
    /\ timers' = Cancel(timers, debounce_timer)
    /\ debounce_timer' = 0
    /\ UNCHANGED <<gh_mode, push_callback, pending_changes, lock_owner, since_push,
                   since_trigger, stop_pc, push_log, awaiting, histVars, appVars, monVars,
                   pullVars, cleanVars, ghVars, devVars, restLife>>

\* start(): initialize() builds a new history and a new auto-sync service on the
\* database of the last run, and runs the initial sync
startup(source, primary, connected) ==
    /\ ~app_up
    /\ app_up' = TRUE
    /\ gh_mode' = GithubMode(source, primary, connected)
    /\ entries' = <<>>
    /\ hash_index' = EmptyIndex
    /\ op' = Call("init", Empty)
    /\ ret' = Returned(Result(<<>>, EmptyIndex, FALSE, NoEntry, FALSE, <<>>))
    /\ rows' = InitialGithubSync(GithubMode(source, primary, connected), rows)
    /\ enabled' = TRUE
    /\ pending_changes' = 0
    /\ awaiting' = FALSE
    /\ UNCHANGED <<max_size, dedupe_enabled, revision, m_pc, m_content, m_ret, m_top,
                   m_saved, p_pc, p_todo, p_entry, p_local_hashes, archived, evicted,
                   push_callback, debounce_timer, timers, lock_owner, since_push,
                   since_trigger, stop_pc, push_log, monVars, pullVars, cleanVars, ghVars,
                   devVars, restLife>>

\* the debounce timer fires and _execute_push calls _immediate_sync_to_github,
\* which uploads when the sync service is connected
debounced_push ==
    /\ app_up
    /\ enabled
    /\ debounce_timer # 0
    /\ gh_mode.source # "none"
    /\ gh_mode.connected
    /\ immediate_sync_to_github

\* the change handler of a running application
running_handler ==
    /\ app_up
    /\ \/ \E content \in CopiedTexts : on_clipboard_change(content, Now)
       \/ handler_archive
       \/ handler_get
       \/ handler_save
       \/ handler_trigger

NextLifecycle ==
    \/ running_handler
    \/ debounced_push
    \/ quit
    \/ \E source \in SettingsSources, primary, connected \in BOOLEAN :
           startup(source, primary, connected)

(* ------------------- the restore worker: SpecRestore ------------------ *)
\* how a call of the worker ends: with a value, with nothing (None), or raising
Outcomes == {"ok", "none", "raises"}

\* the backups offered by the dialog: the content hashes each one carries
BackupHashes == {calculate_hash(c) : c \in CopiedTexts}

BackupFiles == SUBSET BackupHashes

NoSignal == [ok |-> FALSE, message |-> "none"]

\* finished.emit(ok, message)
Finished(ok, message) == [ok |-> ok, message |-> message]

\* no worker was started yet
RestoreInit ==
    /\ rw_pc = "idle"
    /\ rw_log = [download |-> "none", decrypt |-> "none"]
    /\ rw_todo = {}
    /\ rw_ret = NoSignal

\* the message of finished.emit(False, ...) after a call that gave nothing or raised
FailureMessage(step, outcome) == IF outcome = "raises" THEN "exception" ELSE step

\* run(), were it to clear the repository whatever the decryption gave
AfterDecrypt_Always(outcome) == "clear"

\* where run() goes after decrypt_json: on to clear_all() with a document only
AfterDecrypt(outcome) == IF outcome = "ok" THEN "clear" ELSE "done"

\* run(): backup_data = self.github_sync.download_backup(self.filename)
restore_download(backup, outcome) ==
    /\ rw_pc \in {"idle", "done"}
    /\ rw_log' = [download |-> outcome, decrypt |-> "none"]
    /\ rw_pc' = IF outcome = "ok" THEN "decrypt" ELSE "done"
    /\ rw_todo' = IF outcome = "ok" THEN backup ELSE {}
    /\ rw_ret' = IF outcome = "ok" THEN NoSignal
                 ELSE Finished(FALSE, FailureMessage("Failed to download backup", outcome))
    /\ UNCHANGED <<coreVars, restRw>>

\* run(): decrypted_data = self.encryption_manager.decrypt_json(backup_data)
restore_decrypt(outcome) ==
    /\ rw_pc = "decrypt"
    /\ rw_log' = [rw_log EXCEPT !.decrypt = outcome]
    /\ rw_pc' = AfterDecrypt(outcome)
    /\ rw_ret' = IF outcome = "ok" THEN NoSignal
                 ELSE Finished(FALSE, FailureMessage("Failed to decrypt backup", outcome))
    /\ UNCHANGED <<rw_todo, coreVars, restRw>>

\* run(): self.repository.clear_all()
restore_clear ==
    /\ rw_pc = "clear"
    /\ rows' = {}
    /\ rw_pc' = "restore"
    /\ UNCHANGED <<rw_log, rw_todo, rw_ret, histVars, syncVars, revision, m_pc, m_content,
                   m_ret, m_top, m_saved, p_pc, p_todo, p_entry, p_local_hashes, archived,
                   evicted, monVars, pullVars, cleanVars, ghVars, devVars, restRw>>

\* run(): the next entry of the backup is built and saved, or building it raises
restore_entry(h, raises) ==
    /\ rw_pc = "restore"
    /\ h \in rw_todo
    /\ rows' = IF raises THEN rows ELSE rows \cup {h}
    /\ rw_todo' = IF raises THEN {} ELSE rw_todo \ {h}
    /\ rw_pc' = IF raises THEN "done" ELSE "restore"
    /\ rw_ret' = IF raises THEN Finished(FALSE, "exception") ELSE rw_ret
    /\ UNCHANGED <<rw_log, histVars, syncVars, revision, m_pc, m_content, m_ret, m_top,
                   m_saved, p_pc, p_todo, p_entry, p_local_hashes, archived, evicted,
                   monVars, pullVars, cleanVars, ghVars, devVars, restRw>>

\* run(): every entry is saved: finished.emit(True, ...)
restore_finish ==
    /\ rw_pc = "restore"
    /\ rw_todo = {}
    /\ rw_pc' = "done"
    /\ rw_ret' = Finished(TRUE, "Successfully restored")
    /\ UNCHANGED <<rw_log, rw_todo, coreVars, restRw>>

NextRestore ==
    \/ running_handler
    \/ \E backup \in BackupFiles, outcome \in Outcomes : restore_download(backup, outcome)
    \/ \E outcome \in Outcomes : restore_decrypt(outcome)
    \/ restore_clear
    \/ \E h \in BackupHashes, raises \in BOOLEAN : restore_entry(h, raises)
    \/ restore_finish

(* ------------------- the history viewer: SpecViewer ------------------- *)
\* the InfoBar titles of the viewer
InfoBars == {"none", "New Entry", "Cleared"}

\* the viewer is open on an empty database: __init__ sets last_entry_count = 0
\* and _load_entries() stores repository.get_entry_count()
ViewerInit ==
    /\ last_entry_count = 0
    /\ current_count = 0
    /\ v_pc = "idle"
    /\ v_before = 0
    /\ info_bar = "none"
    /\ cleared = {}
    /\ pulled = FALSE

\* repository.get_entry_count()
GetEntryCount(db) == Cardinality(db)

\* the test that guards the "New Entry" InfoBar, made after _load_entries()
\* has stored the reloaded count
ShowsNewEntry(current, last) == current > last

\* _check_for_updates: the count is read; an unchanged count ends the tick
check_for_updates ==
    /\ v_pc = "idle"
    /\ current_count' = GetEntryCount(rows)
    /\ v_before' = last_entry_count
    /\ v_pc' = IF GetEntryCount(rows) # last_entry_count THEN "reload" ELSE "idle"
    /\ info_bar' = "none"
    /\ UNCHANGED <<last_entry_count, cleared, pulled, coreVars, restView>>

\* _check_for_updates: _load_entries() reads the database again and stores its
\* count in last_entry_count, then the counts are compared
load_entries ==
    /\ v_pc = "reload"
    /\ last_entry_count' = GetEntryCount(rows)
    /\ info_bar' = IF ShowsNewEntry(current_count, GetEntryCount(rows))
                   THEN "New Entry" ELSE "none"
    /\ v_pc' = "idle"
    /\ UNCHANGED <<current_count, v_before, cleared, pulled, coreVars, restView>>

\* _clear_history, confirmed: repository.clear_all(), clipboard_history.clear(),
\* last_entry_count = 0
clear_history ==
    /\ v_pc = "idle"
    /\ rows' = {}
    /\ entries' = <<>>
    /\ hash_index' = EmptyIndex
    /\ op' = Call("clear", Empty)
    /\ ret' = Returned(Result(<<>>, EmptyIndex, FALSE, NoEntry, FALSE, <<>>))
    /\ last_entry_count' = 0
    /\ info_bar' = "Cleared"
    /\ cleared' = cleared \cup rows \cup Hashes(entries)
    /\ pulled' = FALSE
    /\ UNCHANGED <<current_count, v_before, v_pc, max_size, dedupe_enabled, syncVars,
                   revision, m_pc, m_content, m_ret, m_top, m_saved, p_pc, p_todo,
                   p_entry, p_local_hashes, archived, evicted, monVars, pullVars,
                   cleanVars, ghVars, devVars, restView>>

\* the content a backup carries under a hash
ContentOf(h) == CHOOSE c \in Contents : calculate_hash(c) = h

\* the orders in which the merge loop may walk a set of hashes
Orders(H) ==
    {s \in UNION {[1 .. n -> H] : n \in 0 .. Cardinality(H)} :
        /\ Len(s) = Cardinality(H)
        /\ \A i, j \in DOMAIN s : i # j => s[i] # s[j]}

\* the merge loop of _pull_from_github: import_entry for each remote-only hash,
\* repository.save_entry for those it added; an exception skips the entry
RECURSIVE MergeRemote(_, _, _, _, _)
MergeRemote(E, I, M, db, order) ==
    IF order = <<>> THEN [entries |-> E, index |-> I, rows |-> db]
    ELSE LET r == ImportEntry(E, I, M, [content |-> ContentOf(Head(order)),
                                         timestamp |-> 0])
         IN  IF r.raised THEN MergeRemote(E, I, M, db, Tail(order))
             ELSE MergeRemote(r.entries, r.index, M,
                              IF r.added THEN db \cup {Head(order)} ELSE db,
                              Tail(order))

\* what _pull_from_github leaves of the store and the database: as they were
\* when download_backup() raises or gives nothing, merged otherwise
PullFromGithub(E, I, M, db, download, order) ==
    IF download.raised \/ ~download.data.present
    THEN [entries |-> E, index |-> I, rows |-> db]
    ELSE MergeRemote(E, I, M, db, order)

\* the periodic pull of the running application: _pull_from_github as one step
pull_from_github(order) ==
    /\ app_up
    /\ revision = "main_improved"
    /\ gh_mode.source # "none"
    /\ gh_mode.connected
    /\ p_pc = "idle"
    /\ LET download == DownloadBackup({}, remote_backup)
           remote_only == download.data.hashes \ Hashes(entries)
           r == PullFromGithub(entries, hash_index, max_size, rows, download, order)
       IN  /\ order \in Orders(remote_only)
           /\ entries' = r.entries
           /\ hash_index' = r.index
           /\ rows' = r.rows
    /\ p_pc' = "returned"
    /\ pulled' = TRUE
    /\ UNCHANGED <<max_size, dedupe_enabled, op, ret, revision, m_pc, m_content, m_ret,
                   m_top, m_saved, p_todo, p_entry, p_local_hashes, archived, evicted,
                   syncVars, monVars, pullVars, cleanVars, ghVars, devVars, restView,
                   last_entry_count, current_count, v_pc, v_before, info_bar, cleared>>

NextViewer ==
    \/ running_handler
    \/ check_for_updates
    \/ load_entries
    \/ clear_history
    \/ debounced_push
    \/ \E order \in UNION {Orders(H) : H \in SUBSET BackupHashes} : pull_from_github(order)
    \/ pull_done

(* ------------------------- claims on the store ------------------------ *)
\* C1: in every reachable state of the store the number of entries in the
\* sequence is at most max_size.
C1_SizeWithinMax == Len(entries) <= max_size

\* C2: in every reachable state the set of hashes in the hash index equals the
\* set of content hashes of the entries in the sequence (has_entry(h) is true
\* exactly when an entry with hash h is in the sequence).
C2_IndexMirrorsEntries == DOMAIN hash_index = Hashes(entries)

\* C3: with dedupe enabled, add_entry(content, ts) of a content whose hash the
\* store already has (has_entry is true) returns (not added, no evicted entry),
\* leaves the size and the set of stored hashes unchanged, has the existing
\* entry at position 0 afterwards, and that entry's timestamp is ts.
C3_Step(content, ts) ==
    LET h == calculate_hash(content)
    IN  (/\ dedupe_enabled
         /\ h \in DOMAIN hash_index
         /\ op' = Call("add_entry", content)
         /\ add_entry(content, ts)) =>
            /\ ret' = [added |-> FALSE, removed |-> NoEntry, raised |-> FALSE]
            /\ Len(entries') = Len(entries)
            /\ Hashes(entries') = Hashes(entries)
            /\ DOMAIN hash_index' = DOMAIN hash_index
            /\ entries'[1].content_hash = h
            /\ entries'[1].id = hash_index'[h]
            /\ entries'[1].timestamp = ts
            /\ Others(entries', h) = Others(entries, h)

C4_Step(content, ts) ==
    LET h    == calculate_hash(content)
        tail == entries[Len(entries)]
    IN  (/\ h \notin Hashes(entries)
         /\ Len(entries) <= max_size
         /\ op' = Call("add_entry", content)
         /\ add_entry(content, ts)) =>
            /\ ByValue(entries'[1]) = ByValue(Entry(content, ts, 0))
            /\ IF Len(entries) = max_size
               THEN /\ ret' = [added |-> TRUE, removed |-> ByValue(tail), raised |-> FALSE]
                    /\ Values(Tail(entries')) = Values(SubSeq(entries, 1, Len(entries) - 1))
                    /\ tail.content_hash \notin DOMAIN hash_index'
               ELSE /\ ret' = [added |-> TRUE, removed |-> NoEntry, raised |-> FALSE]
                    /\ Values(Tail(entries')) = Values(entries)

C4_AddNewEvictsTail ==
    [][\A content \in Contents, ts \in Timestamps : C4_Step(content, ts)]_vars

\* the last n entries of E
LastN(E, n) == IF Len(E) <= n THEN E ELSE SubSeq(E, Len(E) - n + 1, Len(E))

\* C19: import_entry of an entry whose hash the store already holds returns
\* false and leaves the store as it is; otherwise it returns true, the entry is
\* appended at the tail and entries are removed from the head until max_size
\* remain, so the imported entry is in the store when true is returned.
C19_Step(data) ==
    LET h == calculate_hash(data.content)
    IN  (/\ op' = Call("import_entry", data.content)
         /\ import_entry(data)) =>
            IF h \in Hashes(entries)
            THEN /\ ret' = [added |-> FALSE, removed |-> NoEntry, raised |-> FALSE]
                 /\ Values(entries') = Values(entries)
                 /\ DOMAIN hash_index' = DOMAIN hash_index
            ELSE /\ ret' = [added |-> TRUE, removed |-> NoEntry, raised |-> FALSE]
                 /\ Values(entries') =
                       Values(LastN(Append(entries, Entry(data.content, data.timestamp, 0)),
                                    max_size))
                 /\ h \in Hashes(entries')
                 /\ h \in DOMAIN hash_index'

C19_ImportAppendsAtTail == [][\A data \in EntryData : C19_Step(data)]_vars

(* ---------------------- claims on the orchestrator -------------------- *)
\* C5: when the change handler has persisted the entry of a change for which
\* add_entry reported a new entry, the entry it handed to save_entry has the hash
\* of the new content and a row with that hash is persisted, whatever another
\* thread did to the store between the add and the save.
C5_SavedIsAdded ==
    (m_pc = "trigger" /\ m_ret.added) =>
        /\ m_saved = calculate_hash(m_content)
        /\ calculate_hash(m_content) \in rows

NoSharedHash(E) == \A i, j \in DOMAIN E : E[i].content_hash = E[j].content_hash => i = j

\* C7: under every interleaving of the change handler and the remote merge, no
\* two entries of the sequence share a hash, the index and the sequence agree,
\* and the size is at most max_size.
C7_MutationsAtomic ==
    /\ NoSharedHash(entries)
    /\ DOMAIN hash_index = Hashes(entries)
    /\ Len(entries) <= max_size

\* the pull of this step has returned
PullReturns == p_pc = "idle" /\ p_pc' = "returned"

\* C17: when a pull returns, the newest remote backup carrying the hashes R and
\* the local history the hashes L with L and R together within max_size, every
\* entry of R \ L is in the local history and in the repository.
C17_PullMergesRemote ==
    [][(/\ PullReturns
        /\ remote_backup.present
        /\ Cardinality(Hashes(entries) \cup remote_backup.hashes) <= max_size)
       => \A h \in remote_backup.hashes \ Hashes(entries) :
              h \in Hashes(entries') /\ h \in rows']_vars

\* the local history and the second device's together are within max_size
WithinMaxSize == Cardinality(Hashes(entries) \cup peer_entries) <= max_size

\* C18: an entry captured on the second device eventually appears in this
\* device's local history, unless the two histories together exceed max_size.
C18_PeerEntryArrives ==
    \A content \in PeerContents :
        (calculate_hash(content) \in peer_entries)
            ~> (calculate_hash(content) \in Hashes(entries) \/ ~WithinMaxSize)

(* ------------------------ claims on the monitor ----------------------- *)
\* the polling loops that poll: alive and not told to exit, or told and polling again
Polling(t) == Alive(t) /\ (~signalled[t] \/ resumed[t])

\* C8: after any interleaving of start() and stop(), at most one polling loop is
\* active, and a loop that stop() has signalled to exit never polls again after a
\* later start().
C8_OneLoopAtATime ==
    /\ \A t \in ThreadIds : ~resumed[t]
    /\ Cardinality({t \in ThreadIds : Polling(t)}) <= 1

\* a poll by thread t reads a content other than the current run's, ending that run
EndsRun(t) ==
    /\ t_pc[t] = "test"
    /\ t_pc'[t] \in {"compare", "sleep"}
    /\ run.open
    /\ run' # run
    /\ run'.content # run.content

\* no loop was ever told to exit: a single polling loop, at most, has ever run
SingleLoop == \A t \in ThreadIds : ~signalled[t] /\ ~resumed[t]

C10_DebounceRespected ==
    push_log.by = "scheduler" => push_log.after >= DEBOUNCE_SECONDS

\* _execute_push runs on timer t with changes pending and the last push less than
\* MIN_PUSH_INTERVAL seconds ago
TooEarly(t) ==
    /\ timers[t].state = "fired"
    /\ timers'[t] # timers[t]
    /\ enabled /\ push_callback
    /\ pending_changes > 0
    /\ since_push < MIN_PUSH_INTERVAL

\* C11: _execute_push invokes the push callback only when at least
\* MIN_PUSH_INTERVAL seconds have passed since _last_push, the completion of the
\* latest successful push; when it runs earlier, with changes pending, it
\* invokes nothing, starts a timer for the remaining MIN_PUSH_INTERVAL - elapsed
\* seconds, keeps it as the debounce timer and leaves the pending count as it is.
C11_PushSpacing ==
    [][/\ (push_log.by # "scheduler" /\ push_log'.by = "scheduler") =>
             since_push >= MIN_PUSH_INTERVAL
       /\ \A t \in TimerIds :
             TooEarly(t) =>
                /\ timers'[t] = [state |-> "waiting",
                                 remaining |-> MIN_PUSH_INTERVAL - since_push]
                /\ debounce_timer' = t
                /\ pending_changes' = pending_changes
                /\ push_log' = push_log /\ lock_owner' = lock_owner]_vars

\* a push was deferred: changes are pending and a timer waits for longer than a
\* debounce, for what remains of MIN_PUSH_INTERVAL after an earlier push
C11_Witness ==
    /\ enabled /\ push_callback
    /\ pending_changes > 0
    /\ since_push < MIN_PUSH_INTERVAL
    /\ \E t \in TimerIds :
          /\ debounce_timer = t
          /\ timers[t].state = "waiting"
          /\ timers[t].remaining > DEBOUNCE_SECONDS
          /\ timers[t].remaining = MIN_PUSH_INTERVAL - since_push

\* C12 as stated: with the service enabled and a push callback set, every
\* trigger_push is eventually followed by an invocation of the push callback
\* that starts after it.
C12_EveryTriggerPushed == awaiting ~> ~awaiting

\* C12: with the service enabled and a push callback set, a trigger_push is
\* eventually followed by an invocation of the push callback that starts
\* after it or by another trigger_push, which restarts the debounce wait: no
\* trigger stays unanswered forever once the triggers stop coming.
C12_LastTriggerPushed == []<>(~awaiting \/ since_trigger = 0)

C12_Witness ==
    /\ enabled /\ push_callback
    /\ push_log.by = "scheduler"
    /\ ~awaiting
    /\ since_trigger = DEBOUNCE_SECONDS

\* the pull callback is being invoked
PullCalling == \E t \in PullTimerIds : ptimers[t].state = "calling"

\* a Timer for _execute_pull is started in this step
PullScheduled(t) == ptimers'[t].state = "waiting" /\ ptimers[t].state # "waiting"

\* C13: after start() with a pull callback set and no stop(), the pull callback
\* is invoked again and again: the timer start() creates waits the initial
\* delay, the timer created after each attempt waits pull_interval seconds,
\* and an attempt that raised is followed by a next one like one that returned.
C13_PullsForever ==
    /\ [](enabled => <>PullCalling)
    /\ [][\A t \in PullTimerIds :
             PullScheduled(t) =>
                ptimers'[t].remaining =
                   IF ~enabled THEN INITIAL_PULL_DELAY ELSE pull_interval]_vars

C13_Witness ==
    /\ enabled /\ pull_callback
    /\ pull_timer # 0
    /\ ptimers[pull_timer] = NewTimer(pull_interval)

\* stop() has returned and start() was not called since (or never was)
Stopped == ~enabled /\ stop_pc = "idle"

\* C14: after stop() returns no debounce timer and no pull timer is pending,
\* and no invocation of the push or the pull callback begins, until start()
\* is called again.
C14_QuietAfterStop ==
    [][/\ Stopped' =>
            /\ \A t \in TimerIds : timers'[t].state # "waiting"
            /\ \A t \in PullTimerIds : ptimers'[t].state # "waiting"
       /\ Stopped =>
            /\ \A t \in PullTimerIds :
                  ptimers'[t].state = "calling" => ptimers[t].state = "calling"
            /\ push_log'.by # "none" => push_log.by # "none"]_vars

(* --------------------- claims on the cleanup service ------------------ *)
\* C20: every cleanup cycle, run by start(), by the scheduler or by run_now(),
\* invokes the tasks registered when it reads the task list, each once and in
\* the order of registration; a task that raises does not end the cycle.
C20_CycleRunsEveryTask ==
    \A c \in CycleThreads :
        LET y == cycles[c]
        IN  /\ y.tasks = SubSeq(cl_callbacks, 1, Len(y.tasks))
            /\ y.log = SubSeq(y.tasks, 1, Len(y.log))
            /\ (y.pc = "idle" /\ y.by # "none") => y.log = y.tasks

C20_Witness ==
    \E c \in CycleThreads :
        /\ cycles[c].pc = "idle"
        /\ cycles[c].failed
        /\ Len(cycles[c].log) >= 3
        /\ cycles[c].log = cl_callbacks

\* the scheduler thread can take a step of its run of _run_cleanup
SchedulerStep ==
    \/ cycle_copy("scheduler")
    \/ \E raises \in BOOLEAN : cycle_task("scheduler", raises)
    \/ cycle_end("scheduler")

\* C21: a stop() that waits in shutdown(wait=True) is never stuck with the
\* scheduled run: either shutdown can return, or the run can take its next step.
C21_StopTerminates ==
    cl_stop = "waiting" => (ENABLED cleanup_stopped \/ ENABLED SchedulerStep)

\* C31: once stop() has returned and until start() is called again, no thread
\* is in a cleanup cycle: none executes a task and none is about to start one.
C31_NoTaskAfterStop ==
    (~cl_running /\ cl_stop = "idle") => \A c \in CycleThreads : cycles[c].pc = "idle"

(* ---------------------- claims on the remote sync file --------------- *)
\* this step is a call of pull_latest
Pulls == gh_op'.name = "pull_latest"

\* C15 as stated: of two consecutive pull_latest() calls with no write between
\* them the second returns absent, and after a write that changed the file's
\* SHA the next pull_latest() returns the file's new content.
C15_SecondPullAbsent ==
    [][/\ (gh_op.name = "pull_latest" /\ Pulls) => gh_ret' = Absent
       /\ (gh_op.name \in {"push_latest", "remote_write"} /\ gh_op.changed /\ Pulls) =>
             gh_ret' = [data |-> remote_latest, ok |-> TRUE]]_vars

\* C15: a pull_latest() that follows, with no write between, a pull_latest()
\* that reached the host returns absent; after a write by another writer that
\* leaves the file with a SHA other than the last known one, the next
\* pull_latest() that reaches the host returns the file's content.
C15_PullReturnsChangesOnce ==
    [][/\ (gh_op.name = "pull_latest" /\ ~gh_op.failed /\ Pulls) => gh_ret' = Absent
       /\ (/\ gh_op.name = "remote_write"
           /\ Sha(remote_latest) # last_sync_sha
           /\ Pulls /\ ~gh_op'.failed) =>
             /\ gh_ret' = [data |-> remote_latest, ok |-> TRUE]
             /\ last_sync_sha' = Sha(remote_latest)]_vars

C15_Witness ==
    /\ gh_op = GhCall("pull_latest", FALSE, FALSE)
    /\ gh_ret = [data |-> "d2", ok |-> TRUE]
    /\ remote_latest = "d2"
    /\ last_sync_sha = Sha("d2")

\* C16: after a successful push_latest(data), whether the file was created or
\* updated, the last known SHA is the SHA of the file as written, and a
\* pull_latest() that follows with no other write between returns absent.
C16_PushRecordsNewSha ==
    [][(gh_op.name = "push_latest" /\ gh_ret.ok) =>
          /\ last_sync_sha = Sha(remote_latest)
          /\ Pulls => gh_ret' = Absent]_vars

(* -------------------- claims on the shutdown sequence ----------------- *)
\* C22: when shutdown() is over, every step whose component exists has been
\* attempted, whichever step raised.
C22_EveryStepAttempted ==
    sd_pc = ShutdownDone => sd_present \subseteq sd_attempted

(* ----------------------- claims on the repository --------------------- *)
\* a save_entry of thread t commits in this step, its hash having a row
SavesAgain(t) ==
    /\ sess[t].pc = "staged"
    /\ sess[t].op = "save_entry"
    /\ sess'[t].ret = "True"
    /\ \E r \in table : r.content_hash = sess[t].change.hash

\* C23: the table holds at most one row per content_hash, and a save_entry for a
\* hash that has a row changes the timestamp of that row and nothing else.
C23_OneRowPerHash ==
    /\ [](\A r, q \in table : r.content_hash = q.content_hash => r = q)
    /\ [][\A t \in RepoThreads : SavesAgain(t) =>
             /\ \A r \in table : [r EXCEPT !.timestamp = 0] \in
                                     {[q EXCEPT !.timestamp = 0] : q \in table'}
             /\ \A q \in table' : [q EXCEPT !.timestamp = 0] \in
                                     {[r EXCEPT !.timestamp = 0] : r \in table}]_vars

\* two save_entry calls for one hash ran concurrently: one inserted the row, the
\* other was refused by the unique index and returned False
C23_Witness ==
    /\ sess[1].op = "save_entry" /\ sess[2].op = "save_entry"
    /\ sess[1].pc = "idle" /\ sess[2].pc = "idle"
    /\ sess[1].change.kind = "insert" /\ sess[2].change.kind = "insert"
    /\ sess[1].change.hash = sess[2].change.hash
    /\ sess[1].ret = "True" /\ sess[2].ret = "False"
    /\ \E r \in table : r.content_hash = sess[1].change.hash /\ r.encrypted = Encrypted(1)
    /\ \E r \in table : r.content_hash # sess[1].change.hash

\* the call of thread t ends in this step
Ends(t) == sess[t] # sess'[t] /\ sess'[t].pc = "idle"

\* C24: a repository operation that fails inside its session has rolled the
\* session back and closed it, leaves the rows as they were before the call,
\* and returns its failure value instead of raising.
C24_FailureLeavesRows ==
    [][\A t \in RepoThreads :
          (Ends(t) /\ sess'[t].failed) =>
              /\ sess'[t].rolled_back
              /\ sess'[t].closed
              /\ ~sess'[t].raised
              /\ sess'[t].ret = FailureValue(sess'[t].op)
              /\ table' = table]_vars

\* a save_entry whose commit failed: rolled back, False returned, the row another
\* thread committed still there
C24_Witness ==
    /\ sess[2].op = "save_entry" /\ sess[2].pc = "idle"
    /\ sess[2].change.kind = "timestamp"
    /\ sess[2].rolled_back /\ sess[2].ret = "False"
    /\ table # {}

(* ----------------------- claims on the key manager -------------------- *)
\* C25: get_key_with_password(p) returns the stored key when a sync password is
\* set and p matches it, storing and returning the key derived from p when the key
\* is missing; returns absent and leaves the key and the hash as they were when p
\* does not match; and, no sync password being set, stores the hash of p and the
\* key derived from p and returns that key.
C25_Step(p) ==
    k_op' = KeyCall("get_key_with_password", p) =>
        IF stored_hash = NoValue
        THEN /\ stored_hash' = B64(PasswordHash(p))
             /\ stored_key' = B64(derive_key_from_password(p))
             /\ k_ret' = derive_key_from_password(p)
        ELSE IF UnB64(stored_hash) = PasswordHash(p)
        THEN /\ stored_hash' = stored_hash
             /\ IF stored_key # NoValue
                THEN stored_key' = stored_key /\ k_ret' = UnB64(stored_key)
                ELSE /\ stored_key' = B64(derive_key_from_password(p))
                     /\ k_ret' = derive_key_from_password(p)
        ELSE /\ k_ret' = NoValue
             /\ stored_key' = stored_key
             /\ stored_hash' = stored_hash

C26_TokenNotInFiles ==
    keyring_token # "" => (settings_yaml # keyring_token /\ github_yaml # keyring_token)

(* ------------------------ claims on initialize() ---------------------- *)
\* the configuration lacks one of the four required settings, or check_interval
\* is below 100, or max_history_size is below 10
Rejected(c) ==
    \/ NoneValue \in {c.check_interval, c.max_history_size, c.enabled, c.retention_days}
    \/ (c.check_interval.kind = "int" /\ c.check_interval.v < 100)
    \/ (c.max_history_size.kind = "int" /\ c.max_history_size.v < 10)

UiOrOrchestratorState ==
    {"history_viewer", "tray_icon", "clipboard_history", "clipboard_monitor"}

\* C27: no thread but the UI thread calls a method that changes the UI's or the
\* orchestrator's state; in particular none calls the history viewer or the tray
\* icon.
C27_BackgroundThroughBridge ==
    \A c \in direct_calls : c.thread # "ui" => c.target \notin UiOrOrchestratorState

(* --------------------- claims on the archive manager ------------------ *)
\* C28: an archive that cleanup_old_archives() deleted, local or remote, was
\* written more than ARCHIVE_RETENTION_DAYS before the cleanup.
C28_OnlyExpiredDeleted ==
    \A d \in deleted : d.at - d.file > ARCHIVE_RETENTION_DAYS * TicksPerDay

\* this step is a successful archive_entries([entry])
Archives(entry) ==
    /\ clock' = clock
    /\ local_archives' # local_archives
    /\ ArchiveFile(clock, entry) \in local_archives'

\* C32: a successful archive_entries call overwrites no archive file: what
\* get_archived_entries() returned before the call it returns after it, together
\* with the entry of the call.
C32_NoArchiveOverwritten ==
    [][\A entry \in ArchivedEntries :
          Archives(entry) =>
              GetArchivedEntries(local_archives', clock)
                  = GetArchivedEntries(local_archives, clock) \cup {entry}]_vars

(* -------------------- claims on the push in flight -------------------- *)
\* C30: while a timer thread executes the push callback, a trigger_push() call
\* can run to its end.
C30_TriggerNotBlocked == lock_owner \in TimerIds => ENABLED trigger_push

(* -------------------- claims on quit and restart ---------------------- *)
\* this step is a startup
Starts == ~app_up /\ app_up'

\* C33: a startup clears the local repository only when remote sync is
\* configured as primary storage; with is_primary_storage false the persisted
\* rows are the same after startup.
C33_ClearedOnlyIfPrimary ==
    [][(Starts /\ ~(gh_mode'.source # "none" /\ gh_mode'.primary)) => rows' = rows]_vars

\* C36: in primary-storage mode an entry persisted locally before the quit is,
\* after the next startup, in the local repository or in the remote file.
C36_EntrySurvivesRestart ==
    [][(Starts /\ gh_mode'.source # "none" /\ gh_mode'.primary) =>
           rows \subseteq rows' \cup remote_backup'.hashes]_vars

(* --------------------- claims on the restore worker ------------------- *)
\* the worker takes a step out of its download or its decryption
LeavesFetch == rw_pc' # rw_pc /\ rw_pc' \in {"decrypt", "clear", "done"}

TickEnds == (check_for_updates /\ v_pc' = "idle") \/ load_entries

\* C35: a refresh tick shows the "New Entry" notification exactly when the
\* count it read is greater than the count the viewer had seen before the
\* tick reloaded the list
C35_NotifiedIffGrown ==
    [][TickEnds => (info_bar' = "New Entry" <=> current_count' > v_before')]_vars

\* a pull of the running application returns
PullStep == \E order \in UNION {Orders(H) : H \in SUBSET BackupHashes} : pull_from_github(order)

C38_LastSavedTokenUsed ==
    [][(app_start /\ github_yaml \in Tokens) => service_token' = github_yaml]_vars

(* ------------------ claims on the credential store -------------------- *)
\* C39: whenever a verification hash is stored, the stored encryption key is
\* the key derived from the password that the hash verifies
C39_KeyMatchesPassword ==
    stored_hash # NoValue =>
        \E p \in Passwords :
            /\ VerifySyncPassword(stored_hash, p)
            /\ stored_key = B64(derive_key_from_password(p))

(* --------------------------- specifications --------------------------- *)
\* the components at rest
MoreInit ==
    /\ ShutdownInit({})
    /\ RepoInit
    /\ KeyInit
    /\ ConfigInit
    /\ InitializeInit(DefaultConfig)
    /\ BridgeInit
    /\ ArchiveInit
    /\ LifeInit
    /\ RestoreInit
    /\ ViewerInit

\* the history store on its own, every public operation callable at any time
InitHistory ==
    /\ \E M \in 1 .. MaxSize, D \in BOOLEAN : HistoryInit(M, D)
    /\ PullInit(FALSE, {DEFAULT_PULL_INTERVAL})
    /\ SyncInit(TRUE, FALSE)
    /\ AppInit("main_improved")
    /\ MonitorInit
    /\ CleanInit
    /\ GitHubInitOne
    /\ DevInit
    /\ MoreInit

NextHistory ==
    \/ \E content \in Contents \cup {Empty}, ts \in Timestamps : add_entry(content, ts)
    \/ \E data \in EntryData : import_entry(data)
    \/ remove_duplicates
    \/ \E cutoff \in Timestamps : cleanup_old_entries(cutoff)
    \/ clear
    \/ \E M \in 1 .. MaxSize, D \in BOOLEAN, data \in JsonEntries : from_json(M, D, data)

SpecHistory == InitHistory /\ [][NextHistory]_vars

\* the orchestrator of main_improved.py, the auto-sync service started
InitApp ==
    /\ \E M \in 1 .. MaxSize : HistoryInit(M, TRUE)
    /\ PullInit(FALSE, {DEFAULT_PULL_INTERVAL})
    /\ SyncInit(TRUE, TRUE)
    /\ AppInit("main_improved")
    /\ MonitorInit
    /\ CleanInit
    /\ GitHubInitOne
    /\ DevInit
    /\ MoreInit

SpecApp == InitApp /\ [][NextApp]_vars

\* the handlers, the pushes and the pulls of both devices go on running: the
\* monitor thread finishes a handler it began, the pull timer re-arms itself and
\* every change is followed by a push; when the user copies a text is left open
FairDevices ==
    /\ WF_vars(handler_archive)
    /\ WF_vars(handler_get)
    /\ WF_vars(handler_save)
    /\ WF_vars(handler_trigger)
    /\ WF_vars(pull_start)
    /\ WF_vars(pull_done)
    /\ WF_vars(immediate_sync_to_github)
    /\ WF_vars(peer_sync)

SpecDevices == InitApp /\ [][NextDevices]_vars /\ FairDevices

\* the orchestrator of main.py
InitMain ==
    /\ \E M \in 1 .. MaxSize : HistoryInit(M, TRUE)
    /\ PullInit(FALSE, {DEFAULT_PULL_INTERVAL})
    /\ SyncInit(TRUE, TRUE)
    /\ AppInit("main")
    /\ MonitorInit
    /\ CleanInit
    /\ GitHubInitOne
    /\ DevInit
    /\ MoreInit

SpecMain == InitMain /\ [][NextMain]_vars

InitMonitor ==
    /\ HistoryInit(MaxSize, TRUE)
    /\ PullInit(FALSE, {DEFAULT_PULL_INTERVAL})
    /\ SyncInit(TRUE, FALSE)
    /\ AppInit("main_improved")
    /\ MonitorInit
    /\ CleanInit
    /\ GitHubInitOne
    /\ DevInit
    /\ MoreInit

SpecMonitor == InitMonitor /\ [][NextMonitor]_vars

InitAutoSync ==
    /\ HistoryInit(MaxSize, TRUE)
    /\ PullInit(FALSE, {DEFAULT_PULL_INTERVAL})
    /\ \E callback \in BOOLEAN : SyncInit(callback, FALSE)
    /\ AppInit("main_improved")
    /\ MonitorInit
    /\ CleanInit
    /\ GitHubInitOne
    /\ DevInit
    /\ MoreInit

SpecAutoSync == InitAutoSync /\ [][NextAutoSync]_vars

\* the push path, started with a push callback: time passes, timers fire, the
\* timer threads and the callbacks run on; when trigger_push and force_push are
\* called is up to the callers
InitPushLive ==
    /\ HistoryInit(MaxSize, TRUE)
    /\ PullInit(FALSE, {DEFAULT_PULL_INTERVAL})
    /\ SyncInit(TRUE, TRUE)
    /\ AppInit("main_improved")
    /\ MonitorInit
    /\ CleanInit
    /\ GitHubInitOne
    /\ DevInit
    /\ MoreInit

FairPush ==
    /\ WF_vars(Tick)
    /\ \A t \in TimerIds : WF_vars(TimerFire(t))
    /\ \A t \in TimerIds : WF_vars(execute_push(t))
    /\ \A t \in TimerIds : WF_vars(\E ok \in BOOLEAN : push_done(t, ok))
    /\ WF_vars(\E ok \in BOOLEAN : force_done(ok))

SpecPushLive == InitPushLive /\ [][NextPushLive]_vars /\ FairPush

\* the pull chain, constructed with both callbacks and not started yet
InitPull ==
    /\ HistoryInit(MaxSize, TRUE)
    /\ PullInit(TRUE, PullIntervals)
    /\ SyncInit(TRUE, FALSE)
    /\ AppInit("main_improved")
    /\ MonitorInit
    /\ CleanInit
    /\ GitHubInitOne
    /\ DevInit
    /\ MoreInit

SpecPull == InitPull /\ [][NextPull]_vars

FairPull ==
    /\ WF_vars(Tick)
    /\ \A t \in PullTimerIds : WF_vars(PullFire(t))
    /\ \A t \in PullTimerIds : WF_vars(execute_pull(t))
    /\ \A t \in PullTimerIds : WF_vars(pull_call(t))
    /\ \A t \in PullTimerIds : WF_vars(\E ok \in BOOLEAN : pull_returned(t, ok))
    /\ \A t \in PullTimerIds : WF_vars(schedule_check(t))
    /\ \A t \in PullTimerIds : WF_vars(schedule_create(t))

SpecPullLive == InitPull /\ [][NextPullLive]_vars /\ FairPull

InitCleanup ==
    /\ HistoryInit(MaxSize, TRUE)
    /\ PullInit(FALSE, {DEFAULT_PULL_INTERVAL})
    /\ SyncInit(TRUE, FALSE)
    /\ AppInit("main_improved")
    /\ MonitorInit
    /\ CleanInit
    /\ GitHubInitOne
    /\ DevInit
    /\ MoreInit

SpecCleanup == InitCleanup /\ [][NextCleanup]_vars

InitGitHub ==
    /\ HistoryInit(MaxSize, TRUE)
    /\ PullInit(FALSE, {DEFAULT_PULL_INTERVAL})
    /\ SyncInit(TRUE, FALSE)
    /\ AppInit("main_improved")
    /\ MonitorInit
    /\ CleanInit
    /\ GitHubInit
    /\ DevInit
    /\ MoreInit

SpecGitHub == InitGitHub /\ [][NextGitHub]_vars

\* shutdown() after an initialize() that got as far as any of the components
InitShutdown ==
    /\ HistoryInit(MaxSize, TRUE)
    /\ PullInit(FALSE, {DEFAULT_PULL_INTERVAL})
    /\ SyncInit(TRUE, FALSE)
    /\ AppInit("main_improved")
    /\ MonitorInit
    /\ CleanInit
    /\ GitHubInitOne
    /\ DevInit
    /\ \E present \in SUBSET {ShutdownSteps[i] : i \in DOMAIN ShutdownSteps} :
           ShutdownInit(present)
    /\ RepoInit
    /\ KeyInit
    /\ ConfigInit
    /\ InitializeInit(DefaultConfig)
    /\ BridgeInit
    /\ ArchiveInit
    /\ LifeInit
    /\ RestoreInit
    /\ ViewerInit

SpecShutdown == InitShutdown /\ [][NextShutdown]_vars

\* the repository called from two threads
InitRepository ==
    /\ HistoryInit(MaxSize, TRUE)
    /\ PullInit(FALSE, {DEFAULT_PULL_INTERVAL})
    /\ SyncInit(TRUE, FALSE)
    /\ AppInit("main_improved")
    /\ MonitorInit
    /\ CleanInit
    /\ GitHubInitOne
    /\ DevInit
    /\ ShutdownInit({})
    /\ RepoInit
    /\ KeyInit
    /\ ConfigInit
    /\ InitializeInit(DefaultConfig)
    /\ BridgeInit
    /\ ArchiveInit
    /\ LifeInit
    /\ RestoreInit
    /\ ViewerInit

SpecRepository == InitRepository /\ [][NextRepository]_vars

\* the key manager and the configuration on an empty credential store
InitKeys ==
    /\ HistoryInit(MaxSize, TRUE)
    /\ PullInit(FALSE, {DEFAULT_PULL_INTERVAL})
    /\ SyncInit(TRUE, FALSE)
    /\ AppInit("main_improved")
    /\ MonitorInit
    /\ CleanInit
    /\ GitHubInitOne
    /\ DevInit
    /\ MoreInit

\* the key manager's calls, the loads and saves of the configuration
NextStore == NextKeys \/ NextConfig

SpecKeys == InitKeys /\ [][NextStore]_vars

\* initialize() on every configuration the settings files can produce
InitInitialize ==
    /\ HistoryInit(MaxSize, TRUE)
    /\ PullInit(FALSE, {DEFAULT_PULL_INTERVAL})
    /\ SyncInit(TRUE, FALSE)
    /\ AppInit("main_improved")
    /\ MonitorInit
    /\ CleanInit
    /\ GitHubInitOne
    /\ DevInit
    /\ ShutdownInit({})
    /\ RepoInit
    /\ KeyInit
    /\ ConfigInit
    /\ \E c \in Configs : InitializeInit(c)
    /\ BridgeInit
    /\ ArchiveInit
    /\ LifeInit
    /\ RestoreInit
    /\ ViewerInit

SpecInitialize == InitInitialize /\ [][NextInitialize]_vars

\* the tray, the UI thread, the monitor thread, the timers and the workers
SpecBridge == InitKeys /\ [][NextBridge]_vars

\* archives written and cleaned up as time passes
SpecArchive == InitKeys /\ [][NextArchive]_vars

\* one device that is quit and started again, with any remote sync settings
InitLifecycle ==
    /\ HistoryInit(1, TRUE)
    /\ PullInit(FALSE, {DEFAULT_PULL_INTERVAL})
    /\ SyncInit(TRUE, TRUE)
    /\ AppInit("main_improved")
    /\ MonitorInit
    /\ CleanInit
    /\ GitHubInitOne
    /\ DevInit
    /\ MoreInit

SpecLifecycle == InitLifecycle /\ [][NextLifecycle]_vars

\* the restore worker beside the change handler of the running application
SpecRestore == InitLifecycle /\ [][NextRestore]_vars

\* the open viewer beside the change handler of the running application
SpecViewer == InitLifecycle /\ [][NextViewer]_vars

Spec == SpecHistory

====
